---- MODULE Spec2Model ----
(***************************************************************************)
(* Entity index (DataService) and dependency-edge insertion (TimelineView) *)
(* of the Obsidian timeline viewer.                                        *)
(*                                                                         *)
(* Strings are sequences of tokens (a token is a character or an atomic    *)
(* name), so that iterating, spreading, joining and re-parsing a string    *)
(* behave as they do in the program.                                       *)
(***************************************************************************)
EXTENDS Integers, Sequences, FiniteSets, TLC

VARIABLES
    settings,       \* TimelineViewerSettings (useNestedFolders)
    folders,        \* vault folders, in creation order
    vault,          \* vault files (path + content), in creation order
    cache,          \* DataService.cache: Map<string, Entity>, insertion ordered
    rebuilds,       \* refreshCache() invocations that are suspended at an await
    ops,            \* asynchronous calls in flight, one record per call slot
    pendingEvents,  \* vault notifications whose listener has not run yet
    clock,          \* Date.now()
    genCount,       \* identifiers handed out by generateId()
    calls,          \* number of calls started so far
    console,        \* console.warn lines
    phase,          \* plugin life cycle: constructed, loading, ready
    writes,         \* number of writes the vault has taken
    published,      \* the index as it was when the last rebuild in flight returned
    last,           \* outcome of the call that finished last, as its caller sees it
    view,           \* what the view that rendered last computed from the index
    faults          \* vault operations that may still fail (disk, permissions)

vars == <<settings, folders, vault, cache, rebuilds, ops, pendingEvents,
          clock, genCount, calls, console, phase, writes, published, last,
          view, faults>>

-----------------------------------------------------------------------------
\* Bounds of the model

MaxCalls == 2
MaxEventRebuilds == 1
MaxPendingEvents == 1
MaxOps == 1
MaxFaults == 1

-----------------------------------------------------------------------------
\* Strings

Last(s) == s[Len(s)]

IsSpace(c) == c = " "

RECURSIVE TrimLeft(_)
TrimLeft(s) == IF s # <<>> /\ IsSpace(Head(s)) THEN TrimLeft(Tail(s)) ELSE s

RECURSIVE TrimRight(_)
TrimRight(s) ==
    IF s # <<>> /\ IsSpace(Last(s)) THEN TrimRight(SubSeq(s, 1, Len(s) - 1)) ELSE s

Trim(s) == TrimRight(TrimLeft(s))

RECURSIVE JoinStr(_, _)
JoinStr(strs, sep) ==
    IF strs = <<>> THEN <<>>
    ELSE IF Len(strs) = 1 THEN strs[1]
    ELSE strs[1] \o sep \o JoinStr(Tail(strs), sep)

\* split a string at the separators that are outside brackets
RECURSIVE SplitTop(_, _, _, _)
SplitTop(s, sep, depth, cur) ==
    IF s = <<>> THEN <<cur>>
    ELSE LET c == Head(s) IN
         IF c = sep /\ depth = 0
         THEN <<cur>> \o SplitTop(Tail(s), sep, depth, <<>>)
         ELSE SplitTop(Tail(s), sep,
                       IF c = "[" THEN depth + 1
                       ELSE IF c = "]" /\ depth > 0 THEN depth - 1 ELSE depth,
                       Append(cur, c))

-----------------------------------------------------------------------------
\* Frontmatter values as the metadata cache hands them to the plugin

NullV == [t |-> "null", s |-> <<>>, items |-> <<>>]
StrV(s) == [t |-> "str", s |-> s, items |-> <<>>]
ListV(xs) == [t |-> "list", s |-> <<>>, items |-> xs]
\* a number, kept with the token that writes it
NumV(tok) == [t |-> "num", s |-> <<tok>>, items |-> <<>>]
\* a mapping: its entries in order, each the key with its value
FieldV(k, v) == [t |-> "field", s |-> k, items |-> <<v>>]
RecV(fields) == [t |-> "rec", s |-> <<>>, items |-> fields]

\* the integers a note writes (percentages)
MaxNumber == 100
NumberTokens == {ToString(n) : n \in 0..MaxNumber}
NumOf(tok) == CHOOSE n \in 0..MaxNumber : ToString(n) = tok

\* JavaScript truthiness of a frontmatter value
Truthy(v) ==
    \/ v.t \in {"list", "rec"}
    \/ (v.t = "str" /\ v.s # <<>>)
    \/ (v.t = "num" /\ NumOf(v.s[1]) # 0)

\* a YAML node written on one line
RECURSIVE YamlScalar(_)
YamlScalar(text) ==
    LET t == Trim(text) IN
    IF t = <<>> THEN NullV
    ELSE IF Len(t) >= 2 /\ t[1] = "[" /\ Last(t) = "]"
    THEN LET inner == Trim(SubSeq(t, 2, Len(t) - 1))
             parts == IF inner = <<>> THEN <<>> ELSE SplitTop(inner, ",", 0, <<>>)
         IN  ListV([i \in 1..Len(parts) |-> YamlScalar(parts[i])])
    ELSE IF Len(t) >= 2 /\ t[1] = "{" /\ Last(t) = "}"
    THEN \* a flow mapping {key: value, ...}
         LET inner == Trim(SubSeq(t, 2, Len(t) - 1))
             parts == IF inner = <<>> THEN <<>> ELSE SplitTop(inner, ",", 0, <<>>)
         IN  RecV([i \in 1..Len(parts) |->
                      LET part == Trim(parts[i])
                      IN  FieldV(part[1], YamlScalar(SubSeq(part, 3, Len(part))))])
    ELSE IF Len(t) >= 2 /\ t[1] = "\"" /\ Last(t) = "\""
    THEN StrV(SubSeq(t, 2, Len(t) - 1))
    ELSE IF Len(t) = 1 /\ t[1] \in NumberTokens
    THEN NumV(t[1])
    ELSE StrV(t)

\* A frontmatter line is "key: text" (item = FALSE) or an indented block
\* sequence entry "  - text" (item = TRUE, no key).
KeyLine(k, text) == [key |-> k, text |-> text, item |-> FALSE]
ItemLine(text) == [key |-> "", text |-> text, item |-> TRUE]

\* the block sequence entries that directly follow line i
RECURSIVE ItemsAfter(_, _)
ItemsAfter(lines, i) ==
    IF i + 1 <= Len(lines) /\ lines[i + 1].item
    THEN <<lines[i + 1].text>> \o ItemsAfter(lines, i + 1)
    ELSE <<>>

HasKey(lines, k) == \E i \in 1..Len(lines) : ~lines[i].item /\ lines[i].key = k

KeyIndex(lines, k) ==
    CHOOSE i \in 1..Len(lines) :
        /\ ~lines[i].item /\ lines[i].key = k
        /\ \A j \in 1..(i - 1) : lines[j].item \/ lines[j].key # k

\* metadata.frontmatter[k]
FmValue(lines, k) ==
    IF ~HasKey(lines, k) THEN NullV
    ELSE LET i == KeyIndex(lines, k)
             its == ItemsAfter(lines, i)
         IN  IF its = <<>> THEN YamlScalar(lines[i].text)
             ELSE IF Trim(lines[i].text) = <<>>
             THEN ListV([j \in 1..Len(its) |-> YamlScalar(its[j])])
             ELSE \* a plain scalar continued on the indented lines
                  StrV(JoinStr(<<Trim(lines[i].text)>> \o
                               [j \in 1..Len(its) |-> <<"-", " ">> \o Trim(its[j])],
                               <<" ">>))

\* metadataCache.getFileCache(file)?.frontmatter: absent when the note has no
\* attribute block
Doc(hasFm, lines, body) == [hasFm |-> hasFm, lines |-> lines, body |-> body]


NoDoc == Doc(FALSE, <<>>, <<>>)

-----------------------------------------------------------------------------
\* Vault paths: a folder is a sequence of segments, a file a folder and a
\* base name (every modelled file has the extension md)

\* normalizePath: empty segments (doubled or leading slashes) disappear
normalizePath(dir) == SelectSeq(dir, LAMBDA seg : seg # <<>>)

File(dir, base, doc) == [dir |-> dir, base |-> base, doc |-> doc]

FileExists(v, dir, base) == \E i \in 1..Len(v) : v[i].dir = dir /\ v[i].base = base

FileIndex(v, dir, base) == CHOOSE i \in 1..Len(v) : v[i].dir = dir /\ v[i].base = base

FolderExists(fs, dir) == \E i \in 1..Len(fs) : fs[i] = dir

RemoveAt(seq, i) == SubSeq(seq, 1, i - 1) \o SubSeq(seq, i + 1, Len(seq))

IsPrefix(p, q) == Len(p) <= Len(q) /\ SubSeq(q, 1, Len(p)) = p

-----------------------------------------------------------------------------
\* Settings (DEFAULT_SETTINGS names)

RootFolder == <<<<"Timeline Viewer">>>>
GoalsFolder == <<<<"Goals">>>>
PortfoliosFolder == <<<<"Portfolios">>>>
ProjectsFolder == <<<<"Projects">>>>
TasksFolder == <<<<"Tasks">>>>

EntityTypes == {"goal", "portfolio", "project", "task"}

-----------------------------------------------------------------------------
\* DataService.extractLinkId

\* last index j >= from - 1 such that no token of s[from..j] is in bad
RunEnd(s, from, bad) ==
    CHOOSE j \in (from - 1)..Len(s) :
        /\ \A k \in from..j : s[k] \notin bad
        /\ (j = Len(s) \/ s[j + 1] \in bad)

At(s, i) == IF i >= 1 /\ i <= Len(s) THEN s[i] ELSE ""

\* /\[\[([^\]|]+)(?:\|[^\]]+)?\]\]/ matched with "[[" at position i
LinkMatchesAt(s, i) ==
    /\ At(s, i) = "[" /\ At(s, i + 1) = "["
    /\ LET j == RunEnd(s, i + 2, {"]", "|"}) IN
       /\ j >= i + 2
       /\ \/ At(s, j + 1) = "]" /\ At(s, j + 2) = "]"
          \/ /\ At(s, j + 1) = "|"
             /\ LET k == RunEnd(s, j + 2, {"]"}) IN
                k >= j + 2 /\ At(s, k + 1) = "]" /\ At(s, k + 2) = "]"

extractLinkId(link) ==
    LET first == IF link.t = "list"
                 THEN (IF link.items = <<>> THEN NullV ELSE link.items[1])
                 ELSE link
    IN  IF ~Truthy(link) THEN <<>>
        ELSE IF first.t # "str" THEN <<>>
        ELSE IF \E i \in 1..Len(first.s) : LinkMatchesAt(first.s, i)
        THEN LET i == CHOOSE i \in 1..Len(first.s) :
                        /\ LinkMatchesAt(first.s, i)
                        /\ \A h \in 1..(i - 1) : ~LinkMatchesAt(first.s, h)
             IN  SubSeq(first.s, i + 2, RunEnd(first.s, i + 2, {"]", "|"}))
        ELSE first.s

-----------------------------------------------------------------------------
\* DataService.parseFile: zero or one entity

Entity(id, title, type, status, dir, base, parent, deps, progress, startDate, endDate) ==
    [id |-> id, title |-> title, type |-> type, status |-> status,
     dir |-> dir, base |-> base, parent |-> parent, dependencies |-> deps,
     progress |-> progress, startDate |-> startDate, endDate |-> endDate]

\* DataService.parseDate: zero or one time; a string that is no timestamp
\* gives an invalid Date and so none
parseDate(value) ==
    IF ~Truthy(value) THEN <<>>
    ELSE IF value.t = "num" THEN <<NumOf(value.s[1])>>
    ELSE IF value.t = "str" /\ Len(value.s) = 2 /\ value.s[1] \in NumberTokens
                            /\ value.s[2] = "Z"
    THEN <<NumOf(value.s[1])>>
    ELSE <<>>

parseFile(file, expectedType) ==
    LET fm == file.doc.lines
        ftype == FmValue(fm, "type")
        type == IF Truthy(ftype) THEN ftype ELSE expectedType
        fid == FmValue(fm, "id")
        fstatus == FmValue(fm, "status")
        fdeps == FmValue(fm, "dependencies")
        fprogress == FmValue(fm, "progress")
        tname == IF type.t = "str" /\ Len(type.s) = 1 THEN type.s[1] ELSE ""
    IN  IF ~file.doc.hasFm THEN <<>>
        ELSE IF ~Truthy(type) THEN <<>>
        ELSE IF tname \notin EntityTypes THEN <<>>
        ELSE <<Entity(IF Truthy(fid) THEN fid.s ELSE file.base,
                      file.base,
                      tname,
                      IF Truthy(fstatus) THEN fstatus.s ELSE <<"not-started">>,
                      file.dir, file.base,
                      IF tname = "goal" THEN <<>>
                      ELSE extractLinkId(FmValue(fm, "parent")),
                      IF tname = "task"
                      THEN (IF Truthy(fdeps) THEN fdeps ELSE ListV(<<>>))
                      ELSE ListV(<<>>),
                      \* progress: frontmatter.progress || 0 (notes write a number);
                      \* goals and portfolios carry none
                      IF tname \in {"project", "task"} /\ fprogress.t = "num"
                      THEN NumOf(fprogress.s[1]) ELSE 0,
                      IF tname \in {"project", "task"}
                      THEN parseDate(FmValue(fm, "startDate")) ELSE <<>>,
                      \* endDate of a project, dueDate of a task
                      CASE tname = "project" -> parseDate(FmValue(fm, "endDate"))
                        [] tname = "task" -> parseDate(FmValue(fm, "dueDate"))
                        [] OTHER -> <<>>)>>

-----------------------------------------------------------------------------
\* The cache Map

CacheHas(c, id) == \E i \in 1..Len(c) : c[i].id = id

\* cache.get(id), for an id the cache has
getEntity(c, id) == c[CHOOSE i \in 1..Len(c) : c[i].id = id]

\* a mutation of CacheSet: the entity is added whatever the index holds
CacheSetAppend(c, e) == Append(c, e)

\* cache.set(entity.id, entity): a known key keeps its place
CacheSet(c, e) ==
    IF CacheHas(c, e.id)
    THEN [c EXCEPT ![CHOOSE i \in 1..Len(c) : c[i].id = e.id] = e]
    ELSE Append(c, e)

getEntitiesByType(c, type) == SelectSeq(c, LAMBDA e : e.type = type)

-----------------------------------------------------------------------------
\* refreshCache and the scans, cut at their awaits

WorkItem(k, dir, base, expected) ==
    [k |-> k, dir |-> dir, base |-> base, expected |-> expected]

\* folder.children filtered to markdown files
FolderFiles(v, dir, expected) ==
    LET fs == SelectSeq(v, LAMBDA f : f.dir = dir)
    IN  [i \in 1..Len(fs) |-> WorkItem("file", dir, fs[i].base, expected)]

\* folder.children filtered to folders
Subfolders(fs, dir) ==
    LET subs == SelectSeq(fs, LAMBDA d : Len(d) = Len(dir) + 1 /\ IsPrefix(dir, d))
    IN  [i \in 1..Len(subs) |-> WorkItem("scanFolderRecursive", subs[i], <<>>, NullV)]

\* a mutation of RefreshPlan: the flat folders are scanned without an
\* expected type
RefreshPlanUntyped(st) ==
    IF st.useNestedFolders
    THEN <<WorkItem("scanFolderRecursive", RootFolder, <<>>, NullV)>>
    ELSE <<WorkItem("scanFolder", GoalsFolder, <<>>, NullV),
           WorkItem("scanFolder", PortfoliosFolder, <<>>, NullV),
           WorkItem("scanFolder", ProjectsFolder, <<>>, NullV),
           WorkItem("scanFolder", TasksFolder, <<>>, NullV)>>

\* the work refreshCache starts with
RefreshPlan(st) ==
    IF st.useNestedFolders
    THEN <<WorkItem("scanFolderRecursive", RootFolder, <<>>, NullV)>>
    ELSE <<WorkItem("scanFolder", GoalsFolder, <<>>, StrV(<<"goal">>)),
           WorkItem("scanFolder", PortfoliosFolder, <<>>, StrV(<<"portfolio">>)),
           WorkItem("scanFolder", ProjectsFolder, <<>>, StrV(<<"project">>)),
           WorkItem("scanFolder", TasksFolder, <<>>, StrV(<<"task">>))>>

\* Run a scan up to its next "await this.parseFile(file)": the folders on the
\* way are listed as they are at that moment, and the file is parsed before
\* the await; its entity is stored after it.
RECURSIVE Advance(_, _, _)
Advance(todo, v, fs) ==
    IF todo = <<>> THEN [todo |-> <<>>, parsed |-> <<>>, atFile |-> FALSE]
    ELSE LET h == Head(todo) IN
         CASE h.k = "file" ->
                [todo |-> Tail(todo),
                 parsed |-> IF FileExists(v, h.dir, h.base)
                            THEN parseFile(v[FileIndex(v, h.dir, h.base)], h.expected)
                            ELSE <<>>,
                 atFile |-> TRUE]
           [] h.k = "scanFolder" ->
                IF ~FolderExists(fs, h.dir) THEN Advance(Tail(todo), v, fs)
                ELSE Advance(FolderFiles(v, h.dir, h.expected) \o Tail(todo), v, fs)
           [] h.k = "scanFolderRecursive" ->
                IF ~FolderExists(fs, h.dir) THEN Advance(Tail(todo), v, fs)
                ELSE Advance(FolderFiles(v, h.dir, h.expected)
                             \o <<WorkItem("subfolders", h.dir, <<>>, NullV)>>
                             \o Tail(todo), v, fs)
           [] h.k = "subfolders" ->
                Advance(Subfolders(fs, h.dir) \o Tail(todo), v, fs)

\* a suspended refreshCache(); version counts the vault writes that preceded
\* its start
Rebuild(owner, adv, version) ==
    [owner |-> owner, todo |-> adv.todo, parsed |-> adv.parsed, atFile |-> adv.atFile,
     version |-> version]

\* the index a scan of the store yields when nothing interleaves
RECURSIVE ScanAll(_, _, _, _)
ScanAll(c, todo, v, fs) ==
    LET adv == Advance(todo, v, fs) IN
    IF ~adv.atFile THEN c
    ELSE ScanAll(IF adv.parsed = <<>> THEN c ELSE CacheSet(c, adv.parsed[1]),
                 adv.todo, v, fs)

Snapshot(st, v, fs) == ScanAll(<<>>, RefreshPlan(st), v, fs)


-----------------------------------------------------------------------------
\* JavaScript conversions used on frontmatter values

\* `${value}`; an array is joined with commas, null inside an array is empty
RECURSIVE ToJSString(_)
ToJSString(v) ==
    CASE v.t = "str" -> v.s
      [] v.t = "num" -> v.s
      [] v.t = "rec" -> <<"[object Object]">>
      [] v.t = "null" -> <<"null">>
      [] v.t = "list" ->
            JoinStr([i \in 1..Len(v.items) |->
                        IF v.items[i].t = "null" THEN <<>> ELSE ToJSString(v.items[i])],
                    <<",">>)

\* for (const x of value) and [...value]: the elements of an array, the
\* characters of a string
Iterate(v) ==
    CASE v.t = "list" -> v.items
      [] v.t = "str" -> [i \in 1..Len(v.s) |-> StrV(<<v.s[i]>>)]
      [] OTHER -> <<>>

Includes(xs, x) == \E i \in 1..Len(xs) : xs[i] = x

-----------------------------------------------------------------------------
\* TimelineView.wouldCreateCircularDependency

\* this.plugin.dataService.getEntity(taskId)?.dependencies
DependenciesOf(c, taskId) ==
    IF taskId.t = "str" /\ CacheHas(c, taskId.s)
    THEN LET d == getEntity(c, taskId.s).dependencies
         IN  IF Truthy(d) THEN Iterate(d) ELSE <<>>
    ELSE <<>>

RECURSIVE checkDependencies(_, _, _, _)
RECURSIVE checkEach(_, _, _, _)

\* checkDependencies(taskId) with the visited set threaded through
checkDependencies(c, taskId, toId, visited) ==
    IF taskId \in visited THEN [found |-> FALSE, visited |-> visited]
    ELSE IF taskId = StrV(toId) THEN [found |-> TRUE, visited |-> visited]
    ELSE checkEach(c, DependenciesOf(c, taskId), toId, visited \cup {taskId})

\* the for loop over task.dependencies
checkEach(c, deps, toId, visited) ==
    IF deps = <<>> THEN [found |-> FALSE, visited |-> visited]
    ELSE LET r == checkDependencies(c, Head(deps), toId, visited) IN
         IF r.found THEN r ELSE checkEach(c, Tail(deps), toId, r.visited)

wouldCreateCircularDependency(c, fromId, toId) ==
    checkDependencies(c, StrV(fromId), toId, {}).found

-----------------------------------------------------------------------------
\* DataService.updateFrontmatter

Update(k, v) == [key |-> k, val |-> v]

HasUpdate(updates, k) == \E i \in 1..Len(updates) : updates[i].key = k

UpdateVal(updates, k) == updates[CHOOSE i \in 1..Len(updates) : updates[i].key = k].val

\* the line "key: value" written for an updated attribute
UpdatedLine(k, updates) == KeyLine(k, ToJSString(UpdateVal(updates, k)))

\* new Date().toISOString()
IsoNow(now) == <<ToString(now), "Z">>

updateFrontmatter(doc, updates, now) ==
    IF ~doc.hasFm \/ doc.lines = <<>> THEN doc
    ELSE LET replaced ==
                 [i \in 1..Len(doc.lines) |->
                     IF ~doc.lines[i].item /\ HasUpdate(updates, doc.lines[i].key)
                     THEN UpdatedLine(doc.lines[i].key, updates)
                     ELSE doc.lines[i]]
             stamped ==
                 IF HasKey(replaced, "updatedAt")
                 THEN [replaced EXCEPT ![KeyIndex(replaced, "updatedAt")] =
                                           KeyLine("updatedAt", IsoNow(now))]
                 ELSE Append(replaced, KeyLine("updatedAt", IsoNow(now)))
         IN  Doc(TRUE, stamped, doc.body)


-----------------------------------------------------------------------------
\* DataService.createEntity helpers

\* the string a template literal `${a}/${b}/...` builds, as path segments
getFolderForType(st, c, type, parentId) ==
    LET root == RootFolder
        parent == getEntity(c, parentId)
        hasParent == parentId # <<>> /\ CacheHas(c, parentId)
    IN
    IF ~st.useNestedFolders
    THEN CASE type = "goal" -> GoalsFolder
           [] type = "portfolio" -> PortfoliosFolder
           [] type = "project" -> ProjectsFolder
           [] type = "task" -> TasksFolder
    ELSE CASE type = "goal" -> root \o <<<<"Goals">>>>
           [] type = "portfolio" ->
                IF hasParent
                THEN root \o <<<<"Goals">>, parent.title, <<"Portfolios">>>>
                ELSE root \o <<<<"Portfolios">>>>
           [] type = "project" ->
                IF hasParent /\ parent.type = "portfolio"
                THEN IF parent.parent # <<>> /\ CacheHas(c, parent.parent)
                     THEN root \o <<<<"Goals">>, getEntity(c, parent.parent).title,
                                    <<"Portfolios">>, parent.title, <<"Projects">>>>
                     ELSE root \o <<<<"Portfolios">>, parent.title, <<"Projects">>>>
                ELSE root \o <<<<"Projects">>>>
           [] type = "task" ->
                IF hasParent /\ parent.type = "project"
                THEN LET projectPath ==
                             IF parent.parent # <<>>
                             THEN IF CacheHas(c, parent.parent)
                                  THEN LET portfolio == getEntity(c, parent.parent) IN
                                       IF portfolio.parent # <<>>
                                       THEN IF CacheHas(c, portfolio.parent)
                                            THEN root \o <<<<"Goals">>,
                                                     getEntity(c, portfolio.parent).title,
                                                     <<"Portfolios">>, portfolio.title,
                                                     <<"Projects">>, parent.title>>
                                            ELSE <<<<>>>>
                                       ELSE root \o <<<<"Portfolios">>, portfolio.title,
                                                      <<"Projects">>, parent.title>>
                                  ELSE <<<<>>>>
                             ELSE root \o <<<<"Projects">>, parent.title>>
                     IN  projectPath \o <<<<"Tasks">>>>
                ELSE root \o <<<<"Tasks">>>>

\* generateId(): `${Date.now()}-${random}`, never handed out twice
generateId(now, n) == <<ToString(now), "-", "r", ToString(n)>>

InvalidFileChars == {"\\", "/", ":", "*", "?", "\"", "<", ">", "|"}

FileNameLimit == 200

RECURSIVE CollapseSpaces(_)
CollapseSpaces(s) ==
    IF s = <<>> THEN <<>>
    ELSE IF IsSpace(Head(s))
    THEN <<" ">> \o CollapseSpaces(TrimLeft(s))
    ELSE <<Head(s)>> \o CollapseSpaces(Tail(s))

sanitizeFileName(fileName) ==
    LET dashed == [i \in 1..Len(fileName) |->
                      IF fileName[i] \in InvalidFileChars THEN "-" ELSE fileName[i]]
        trimmed == Trim(CollapseSpaces(dashed))
    IN  SubSeq(trimmed, 1, IF Len(trimmed) < FileNameLimit THEN Len(trimmed)
                           ELSE FileNameLimit)

Digits == {"0", "1", "2", "3", "4", "5", "6", "7", "8", "9"}

RECURSIVE StripDigits(_)
StripDigits(s) ==
    IF s # <<>> /\ Last(s) \in Digits THEN StripDigits(SubSeq(s, 1, Len(s) - 1)) ELSE s

\* fileName.replace(/\s*\d+$/, '')
StripNumber(fileName) ==
    IF fileName # <<>> /\ Last(fileName) \in Digits
    THEN TrimRight(StripDigits(fileName))
    ELSE fileName

RECURSIVE UniqueFrom(_, _, _, _, _)
UniqueFrom(v, dir, fileName, base, counter) ==
    IF ~FileExists(v, dir, base) THEN base
    ELSE UniqueFrom(v, dir, fileName,
                    StripNumber(fileName) \o <<" ", ToString(counter)>>, counter + 1)

\* the base name of the path getUniqueFilePath returns
getUniqueFilePath(v, dir, fileName) == UniqueFrom(v, dir, fileName, fileName, 1)

\* "# title" followed by the template of the type
getTemplateContent(type, title) == <<"#", " ">> \o title \o <<"\n", type>>

\* the frontmatter createEntity assembles, in insertion order
NewFrontmatter(type, id, parentId, now) ==
    <<KeyLine("type", <<type>>),
      KeyLine("id", id),
      KeyLine("status", IF type = "project" THEN <<"in-progress">> ELSE <<"not-started">>),
      KeyLine("createdAt", IsoNow(now)),
      KeyLine("updatedAt", IsoNow(now))>>
    \o (IF parentId # <<>>
        THEN <<KeyLine("parent", <<"[", "[">> \o parentId \o <<"]", "]">>)>>
        ELSE <<>>)
    \o (IF type = "task"
        THEN <<KeyLine("priority", <<"medium">>), KeyLine("progress", <<"0">>),
               KeyLine("startDate", IsoNow(now)), KeyLine("dueDate", IsoNow(now + 1))>>
        ELSE <<>>)
    \o (IF type = "project"
        THEN <<KeyLine("progress", <<"0">>),
               KeyLine("startDate", IsoNow(now)), KeyLine("endDate", IsoNow(now + 26))>>
        ELSE <<>>)

buildFileContent(lines, type, title) == Doc(TRUE, lines, getTemplateContent(type, title))

\* the folder and every missing folder above it, created top down
RECURSIVE ensureFolderExists(_, _, _)
ensureFolderExists(fs, dir, n) ==
    IF FolderExists(fs, dir) \/ n > Len(dir) THEN fs
    ELSE ensureFolderExists(IF FolderExists(fs, SubSeq(dir, 1, n)) THEN fs
                            ELSE Append(fs, SubSeq(dir, 1, n)),
                            dir, n + 1)


-----------------------------------------------------------------------------
\* Calls in flight

OpIds == 1..MaxOps

\* owner of a rebuild: a call slot, the vault/metadata listeners, or onload
Listener == 0
Onload == -1

IdleOp ==
    [kind |-> "idle", pc |-> "idle", id |-> <<>>, from |-> <<>>, updates |-> <<>>,
     dir |-> <<>>, base |-> <<>>, content |-> NoDoc, title |-> <<>>, type |-> "",
     parentId |-> <<>>, preDoc |-> NoDoc, preDeps |-> NullV, now |-> 0,
     sample |-> 0, sampleId |-> <<>>, failed |-> FALSE]

NoLast ==
    [kind |-> "none", id |-> <<>>, from |-> <<>>, updates |-> <<>>, title |-> <<>>,
     type |-> "", parentId |-> <<>>, decided |-> "", ret |-> "", threw |-> FALSE,
     entity |-> <<>>, dir |-> <<>>, base |-> <<>>, preDoc |-> NoDoc,
     preDeps |-> NullV, now |-> 0, failed |-> FALSE]

\* what the caller of a finished call holds
Outcome(op, decided, ret, threw, entity) ==
    [kind |-> op.kind, id |-> op.id, from |-> op.from, updates |-> op.updates,
     title |-> op.title, type |-> op.type, parentId |-> op.parentId,
     decided |-> decided, ret |-> ret, threw |-> threw, entity |-> entity,
     dir |-> op.dir, base |-> op.base, preDoc |-> op.preDoc,
     preDeps |-> op.preDeps, now |-> op.now, failed |-> op.failed]

\* no view has rendered yet; seen is the index a reader read, asked the id a
\* lookup asked for and found what it got
NoView ==
    [kind |-> "none", seen |-> <<>>, items |-> <<>>, nodes |-> <<>>, edges |-> <<>>,
     criticalPath |-> <<>>, tree |-> <<>>, asked |-> <<>>, found |-> <<>>,
     threw |-> FALSE, error |-> ""]

NoneInFlight ==
    /\ rebuilds = <<>>
    /\ pendingEvents = 0
    /\ \A o \in OpIds : ops[o].pc = "idle"

\* a call may start in slot o; sequential callers wait until nothing is in flight
MayStart(o, sequential) ==
    /\ phase = "ready"
    /\ calls < MaxCalls
    /\ ops[o].pc = "idle"
    /\ \A p \in OpIds : p < o => ops[p].pc # "idle"
    /\ sequential => NoneInFlight

Notify(n) == IF n < MaxPendingEvents THEN n + 1 ELSE n

\* refreshCache() up to its first await: the cache is cleared in place
StartRefresh(owner) ==
    /\ cache' = <<>>
    /\ rebuilds' = Append(rebuilds, Rebuild(owner, Advance(RefreshPlan(settings), vault, folders),
                                            writes))

Finish(o, outcome) ==
    /\ ops' = [ops EXCEPT ![o] = IdleOp]
    /\ last' = outcome

-----------------------------------------------------------------------------
\* Plugin start-up and the listeners

\* onload: await this.dataService.initialize()
Initialize ==
    /\ phase = "constructed"
    /\ phase' = "loading"
    /\ StartRefresh(Onload)
    /\ UNCHANGED <<view, faults, settings, folders, vault, ops, pendingEvents, clock, genCount,
                   calls, console, writes, published, last>>

\* the vault modify/create/delete listeners, the metadata "resolved" listener
\* and the onLayoutReady callback: each calls refreshCache()
ListenerRefresh ==
    /\ phase # "constructed"
    /\ pendingEvents > 0
    /\ Cardinality({i \in 1..Len(rebuilds) : rebuilds[i].owner = Listener}) < MaxEventRebuilds
    /\ pendingEvents' = pendingEvents - 1
    /\ StartRefresh(Listener)
    /\ UNCHANGED <<view, faults, settings, folders, vault, ops, clock, genCount, calls, console,
                   phase, writes, published, last>>

\* a mutation of RebuildStep: an entity whose parent is not in the index is
\* not stored
RebuildStepResolved(i) ==
    /\ i \in 1..Len(rebuilds)
    /\ rebuilds[i].atFile
    /\ cache' = IF rebuilds[i].parsed = <<>> THEN cache
                ELSE IF rebuilds[i].parsed[1].parent # <<>>
                        /\ ~CacheHas(cache, rebuilds[i].parsed[1].parent)
                THEN cache
                ELSE CacheSet(cache, rebuilds[i].parsed[1])
    /\ rebuilds' = [rebuilds EXCEPT
                       ![i] = Rebuild(rebuilds[i].owner,
                                      Advance(rebuilds[i].todo, vault, folders),
                                      rebuilds[i].version)]
    /\ UNCHANGED <<view, faults, settings, folders, vault, ops, pendingEvents, clock, genCount,
                   calls, console, phase, writes, published, last>>

\* a scan resumes after "await this.parseFile(file)": the parsed entity is
\* stored and the scan runs on to its next await
RebuildStep(i) ==
    /\ i \in 1..Len(rebuilds)
    /\ rebuilds[i].atFile
    /\ cache' = IF rebuilds[i].parsed = <<>> THEN cache
                ELSE CacheSet(cache, rebuilds[i].parsed[1])
    /\ rebuilds' = [rebuilds EXCEPT
                       ![i] = Rebuild(rebuilds[i].owner,
                                      Advance(rebuilds[i].todo, vault, folders),
                                      rebuilds[i].version)]
    /\ UNCHANGED <<view, faults, settings, folders, vault, ops, pendingEvents, clock, genCount,
                   calls, console, phase, writes, published, last>>

\* what the awaiting call does when its refreshCache() returns
AfterRefresh(o) ==
    LET op == ops[o] IN
    CASE op.pc = "sampleRefreshing" ->
            \* createSampleTasksForProject returns; createEntity refreshes again
            ops' = [ops EXCEPT ![o].pc = "refresh"] /\ UNCHANGED last
      [] op.pc # "sampleRefreshing" /\ op.kind = "createEntity" ->
            \* return this.cache.get(id) || null
            Finish(o, IF CacheHas(cache, op.id)
                      THEN Outcome(op, "created", "entity", FALSE, <<getEntity(cache, op.id)>>)
                      ELSE Outcome(op, "created", "null", FALSE, <<>>))
      [] op.kind = "deleteEntity" -> Finish(o, Outcome(op, "deleted", "true", FALSE, <<>>))
      [] op.kind = "updateEntity" -> Finish(o, Outcome(op, "updated", "undefined", FALSE, <<>>))
      [] op.kind = "createDependency" ->
            Finish(o, Outcome(op, "accepted", "undefined", FALSE, <<>>))

\* refreshCache() returns to whoever awaited it
RebuildFinish(i) ==
    /\ i \in 1..Len(rebuilds)
    /\ ~rebuilds[i].atFile
    /\ rebuilds' = RemoveAt(rebuilds, i)
    /\ LET owner == rebuilds[i].owner IN
       IF owner = Onload
       THEN phase' = "ready" /\ UNCHANGED <<ops, last>>
       ELSE IF owner = Listener
       THEN UNCHANGED <<phase, ops, last>>
       ELSE AfterRefresh(owner) /\ UNCHANGED phase
    /\ published' = IF Len(rebuilds) = 1 THEN cache ELSE published
    /\ UNCHANGED <<view, faults, settings, folders, vault, cache, pendingEvents, clock, genCount,
                   calls, console, writes>>

\* await this.refreshCache() inside createEntity, createSampleTasksForProject,
\* updateEntity, deleteEntity
OpRefresh(o) ==
    /\ ops[o].pc \in {"refresh", "sampleRefresh"}
    /\ ops' = [ops EXCEPT ![o].pc = IF ops[o].pc = "refresh" THEN "refreshing"
                                     ELSE "sampleRefreshing"]
    /\ StartRefresh(o)
    /\ UNCHANGED <<view, faults, settings, folders, vault, pendingEvents, clock, genCount, calls,
                   console, phase, writes, published, last>>


-----------------------------------------------------------------------------
\* DataService.updateEntity

\* the entity is indexed and its file exists
HasFile(c, v, id) ==
    /\ CacheHas(c, id)
    /\ FileExists(v, getEntity(c, id).dir, getEntity(c, id).base)

\* updateEntity(id, updates) up to "await this.app.vault.read(file)"
BeginUpdate(o, kind, id, from, updates) ==
    LET e == getEntity(cache, id)
        op == [IdleOp EXCEPT !.kind = kind, !.id = id, !.from = from,
                             !.updates = updates, !.now = clock + 1]
    IN  IF ~HasFile(cache, vault, id)
        THEN Finish(o, Outcome(op, IF kind = "createDependency" THEN "accepted"
                                   ELSE "notFound", "undefined", FALSE, <<>>))
        ELSE /\ ops' = [ops EXCEPT ![o] =
                          [op EXCEPT !.pc = "read", !.dir = e.dir, !.base = e.base,
                                     !.preDoc = vault[FileIndex(vault, e.dir, e.base)].doc,
                                     !.preDeps = e.dependencies]]
             /\ UNCHANGED last

StartUpdateEntity(o, id, updates, sequential) ==
    /\ MayStart(o, sequential)
    /\ calls' = calls + 1
    /\ clock' = clock + 1
    /\ BeginUpdate(o, "updateEntity", id, <<>>, updates)
    /\ UNCHANGED <<view, faults, settings, folders, vault, cache, rebuilds, pendingEvents, genCount,
                   console, phase, writes, published>>

\* vault.read returns; the new content is computed and vault.modify is called
UpdateRead(o) ==
    /\ ops[o].pc = "read"
    /\ IF ~FileExists(vault, ops[o].dir, ops[o].base)
       THEN Finish(o, Outcome(ops[o], "failed", "", TRUE, <<>>))
       ELSE /\ ops' = [ops EXCEPT
                          ![o].pc = "modify",
                          ![o].content =
                              updateFrontmatter(
                                  vault[FileIndex(vault, ops[o].dir, ops[o].base)].doc,
                                  ops[o].updates, ops[o].now)]
            /\ UNCHANGED last
    /\ UNCHANGED <<view, faults, settings, folders, vault, cache, rebuilds, pendingEvents, clock,
                   genCount, calls, console, phase, writes, published>>

\* vault.modify writes the file; the vault announces the change
UpdateModify(o) ==
    /\ ops[o].pc = "modify"
    /\ IF ~FileExists(vault, ops[o].dir, ops[o].base)
       THEN /\ Finish(o, Outcome(ops[o], "failed", "", TRUE, <<>>))
            /\ UNCHANGED <<vault, pendingEvents>>
       ELSE /\ vault' = [vault EXCEPT
                            ![FileIndex(vault, ops[o].dir, ops[o].base)].doc = ops[o].content]
            /\ pendingEvents' = Notify(pendingEvents)
            /\ ops' = [ops EXCEPT ![o].pc = "refresh"]
            /\ UNCHANGED last
    /\ writes' = IF vault' = vault THEN writes ELSE writes + 1
    /\ UNCHANGED <<view, faults, settings, folders, cache, rebuilds, clock, genCount, calls, console,
                   phase, published>>

-----------------------------------------------------------------------------
\* TimelineView.handleGlobalMouseUp and createDependency

\* createDependency as it would run without the return that follows the warning
createDependencyWarnOnly(o, from, to) ==
    LET call == [IdleOp EXCEPT !.kind = "createDependency", !.id = to, !.from = from,
                               !.now = clock + 1]
        task == getEntity(cache, to)
        dependencies == Iterate(task.dependencies)
    IN  IF ~(CacheHas(cache, to) /\ task.type = "task")
        THEN /\ Finish(o, Outcome(call, "ignored", "undefined", FALSE, <<>>))
             /\ UNCHANGED console
        ELSE /\ console' = IF wouldCreateCircularDependency(cache, from, to)
                           THEN console + 1 ELSE console
             /\ IF Includes(dependencies, StrV(from))
                THEN Finish(o, Outcome([call EXCEPT !.preDeps = task.dependencies],
                                       "duplicate", "undefined", FALSE, <<>>))
                ELSE BeginUpdate(o, "createDependency", to, from,
                                 <<Update("dependencies",
                                          ListV(Append(dependencies, StrV(from))))>>)

\* createDependency(fromTaskId, toTaskId) up to its first await
createDependency(o, from, to) ==
    LET call == [IdleOp EXCEPT !.kind = "createDependency", !.id = to, !.from = from,
                               !.now = clock + 1]
        task == getEntity(cache, to)
        dependencies == Iterate(task.dependencies)
    IN  IF ~(CacheHas(cache, to) /\ task.type = "task")
        THEN /\ Finish(o, Outcome(call, "ignored", "undefined", FALSE, <<>>))
             /\ UNCHANGED console
        ELSE IF wouldCreateCircularDependency(cache, from, to)
        THEN /\ Finish(o, Outcome([call EXCEPT !.preDeps = task.dependencies],
                                  "rejected", "undefined", FALSE, <<>>))
             /\ console' = console + 1
        ELSE IF Includes(dependencies, StrV(from))
        THEN /\ Finish(o, Outcome([call EXCEPT !.preDeps = task.dependencies],
                                  "duplicate", "undefined", FALSE, <<>>))
             /\ UNCHANGED console
        ELSE /\ BeginUpdate(o, "createDependency", to, from,
                            <<Update("dependencies",
                                     ListV(Append(dependencies, StrV(from))))>>)
             /\ UNCHANGED console

\* a connection dragged from the handle of task "from" is dropped on the left
\* handle of task "to"
handleGlobalMouseUp(o, from, to, sequential) ==
    /\ MayStart(o, sequential)
    /\ calls' = calls + 1
    /\ clock' = clock + 1
    /\ IF to # from
       THEN createDependency(o, from, to)
       ELSE /\ Finish(o, Outcome([IdleOp EXCEPT !.kind = "handleGlobalMouseUp", !.id = to,
                                                !.from = from],
                                 "dropped", "undefined", FALSE, <<>>))
            /\ UNCHANGED console
    /\ UNCHANGED <<view, faults, settings, folders, vault, cache, rebuilds, pendingEvents, genCount,
                   phase, writes, published>>

-----------------------------------------------------------------------------
\* DataService.deleteEntity

StartDeleteEntity(o, id, sequential) ==
    /\ MayStart(o, sequential)
    /\ calls' = calls + 1
    /\ clock' = clock + 1
    /\ LET op == [IdleOp EXCEPT !.kind = "deleteEntity", !.id = id, !.now = clock + 1] IN
       IF ~HasFile(cache, vault, id)
       THEN Finish(o, Outcome(op, "notFound", "false", FALSE, <<>>))
       ELSE /\ ops' = [ops EXCEPT ![o] =
                         [op EXCEPT !.pc = "trash", !.dir = getEntity(cache, id).dir,
                                    !.base = getEntity(cache, id).base]]
            /\ UNCHANGED last
    /\ UNCHANGED <<view, faults, settings, folders, vault, cache, rebuilds, pendingEvents, genCount,
                   console, phase, writes, published>>

\* vault.trash removes the file; a failure is caught and reported as false
DeleteTrash(o) ==
    /\ ops[o].pc = "trash"
    /\ IF ~FileExists(vault, ops[o].dir, ops[o].base)
       THEN /\ Finish(o, Outcome(ops[o], "failed", "false", FALSE, <<>>))
            /\ UNCHANGED <<vault, pendingEvents>>
       ELSE /\ vault' = RemoveAt(vault, FileIndex(vault, ops[o].dir, ops[o].base))
            /\ pendingEvents' = Notify(pendingEvents)
            /\ ops' = [ops EXCEPT ![o].pc = "refresh"]
            /\ UNCHANGED last
    /\ writes' = IF vault' = vault THEN writes ELSE writes + 1
    /\ UNCHANGED <<view, faults, settings, folders, cache, rebuilds, clock, genCount, calls, console,
                   phase, published>>

\* the user trashes a note in the file explorer; the vault "delete" listener of
\* the plugin is told
FileTrashed(base) ==
    /\ phase = "ready"
    /\ \E k \in 1..Len(vault) : vault[k].base = base
    /\ vault' = RemoveAt(vault, CHOOSE k \in 1..Len(vault) : vault[k].base = base)
    /\ pendingEvents' = Notify(pendingEvents)
    /\ writes' = writes + 1
    /\ UNCHANGED <<view, faults, settings, folders, cache, rebuilds, ops, clock, genCount, calls,
                   console, phase, published, last>>

-----------------------------------------------------------------------------
\* DataService.createEntity

\* createEntity(type, title, parentId) up to "await this.ensureFolderExists"
StartCreateEntity(o, type, title, parentId, sequential) ==
    /\ MayStart(o, sequential)
    /\ calls' = calls + 1
    /\ clock' = clock + 1
    /\ ops' = [ops EXCEPT ![o] =
                 [IdleOp EXCEPT !.kind = "createEntity", !.pc = "ensure", !.type = type,
                                !.title = title, !.parentId = parentId, !.now = clock + 1,
                                !.dir = normalizePath(
                                            getFolderForType(settings, cache, type, parentId))]]
    /\ UNCHANGED <<view, faults, settings, folders, vault, cache, rebuilds, pendingEvents, genCount,
                   console, phase, writes, published, last>>

\* the folder exists now; the id, the content and the free path are computed
\* and vault.create is called
CreateEnsure(o) ==
    /\ ops[o].pc = "ensure"
    /\ folders' = ensureFolderExists(folders, ops[o].dir, 1)
    /\ genCount' = genCount + 1
    /\ LET id == generateId(ops[o].now, genCount + 1) IN
       ops' = [ops EXCEPT
                  ![o].pc = "create",
                  ![o].id = id,
                  ![o].content = buildFileContent(
                                     NewFrontmatter(ops[o].type, id, ops[o].parentId,
                                                    ops[o].now),
                                     ops[o].type, ops[o].title),
                  ![o].base = getUniqueFilePath(vault, ops[o].dir,
                                                sanitizeFileName(ops[o].title))]
    /\ UNCHANGED <<view, faults, settings, vault, cache, rebuilds, pendingEvents, clock, calls, console,
                   phase, writes, published, last>>

\* a mutation of CreateFile: sample tasks are written for every type
CreateFileSamplesAlways(o) ==
    /\ ops[o].pc = "create"
    /\ IF FileExists(vault, ops[o].dir, ops[o].base)
       THEN /\ Finish(o, Outcome(ops[o], "failed", "", TRUE, <<>>))
            /\ UNCHANGED <<vault, pendingEvents>>
       ELSE /\ vault' = Append(vault, File(ops[o].dir, ops[o].base, ops[o].content))
            /\ pendingEvents' = Notify(pendingEvents)
            /\ ops' = [ops EXCEPT ![o].pc = "sampleEnsure", ![o].sample = 1]
            /\ UNCHANGED last
    /\ writes' = IF vault' = vault THEN writes ELSE writes + 1
    /\ UNCHANGED <<view, faults, settings, folders, cache, rebuilds, clock, genCount, calls, console,
                   phase, published>>

\* vault.create: the file appears, or the call throws "Could not create"
CreateFile(o) ==
    /\ ops[o].pc = "create"
    /\ IF FileExists(vault, ops[o].dir, ops[o].base)
       THEN /\ Finish(o, Outcome(ops[o], "failed", "", TRUE, <<>>))
            /\ UNCHANGED <<vault, pendingEvents>>
       ELSE /\ vault' = Append(vault, File(ops[o].dir, ops[o].base, ops[o].content))
            /\ pendingEvents' = Notify(pendingEvents)
            /\ ops' = [ops EXCEPT ![o].pc = IF ops[o].type = "project" THEN "sampleEnsure"
                                             ELSE "refresh",
                                  ![o].sample = 1]
            /\ UNCHANGED last
    /\ writes' = IF vault' = vault THEN writes ELSE writes + 1
    /\ UNCHANGED <<view, faults, settings, folders, cache, rebuilds, clock, genCount, calls, console,
                   phase, published>>


-----------------------------------------------------------------------------
\* DataService.createSampleTasksForProject

\* the sample tasks of a new project: title, days from today, status
SampleTasks ==
    <<[title |-> <<"Planning and Requirements">>, startDays |-> 0, status |-> "in-progress",
       priority |-> "high"],
      [title |-> <<"Design and Architecture">>, startDays |-> 0, status |-> "not-started",
       priority |-> "high"],
      [title |-> <<"Implementation">>, startDays |-> 1, status |-> "not-started",
       priority |-> "medium"],
      [title |-> <<"Testing and QA">>, startDays |-> 2, status |-> "not-started",
       priority |-> "high"],
      [title |-> <<"Documentation">>, startDays |-> 2, status |-> "not-started",
       priority |-> "medium"]>>

\* the folder the sample tasks of the project are written to
SampleFolder(st, projectFolderPath, projectTitle) ==
    IF st.useNestedFolders
    THEN normalizePath(projectFolderPath \o <<sanitizeFileName(projectTitle), <<"Tasks">>>>)
    ELSE normalizePath(TasksFolder)

\* the frontmatter of a sample task, in insertion order
SampleFrontmatter(taskSpec, taskId, projectId, now) ==
    <<KeyLine("type", <<"task">>),
      KeyLine("id", taskId),
      KeyLine("status", <<taskSpec.status>>),
      KeyLine("priority", <<taskSpec.priority>>),
      KeyLine("progress", IF taskSpec.status = "in-progress" THEN <<"30">> ELSE <<"0">>),
      KeyLine("startDate", IsoNow(now + taskSpec.startDays)),
      KeyLine("dueDate", IsoNow(now + taskSpec.startDays + 1)),
      KeyLine("createdAt", IsoNow(now)),
      KeyLine("updatedAt", IsoNow(now)),
      KeyLine("parent", <<"[", "[">> \o projectId \o <<"]", "]">>)>>

\* the loop moves on to the next sample task, or to the refresh after the last
NextSample(o) ==
    [ops EXCEPT ![o].sample = ops[o].sample + 1,
                ![o].pc = IF ops[o].sample = Len(SampleTasks) THEN "sampleRefresh"
                          ELSE "sampleEnsure"]

\* one turn of the loop up to vault.create: the folder exists now, the id,
\* the content and the free path are computed
SampleEnsure(o) ==
    /\ ops[o].pc = "sampleEnsure"
    /\ LET dir == SampleFolder(settings, ops[o].dir, ops[o].title) IN
       /\ folders' = ensureFolderExists(folders, dir, 1)
       /\ genCount' = genCount + 1
       /\ ops' = [ops EXCEPT ![o].pc = "sampleCreate",
                             ![o].sampleId = generateId(ops[o].now, genCount + 1)]
    /\ UNCHANGED <<view, faults, settings, vault, cache, rebuilds, pendingEvents, clock,
                   calls, console, phase, writes, published, last>>

\* vault.create of the sample task; a failure is logged and the loop goes on
SampleCreate(o) ==
    /\ ops[o].pc = "sampleCreate"
    /\ LET taskSpec == SampleTasks[ops[o].sample]
           dir == SampleFolder(settings, ops[o].dir, ops[o].title)
           base == getUniqueFilePath(vault, dir, sanitizeFileName(taskSpec.title))
           content == buildFileContent(
                          SampleFrontmatter(taskSpec, ops[o].sampleId, ops[o].id, ops[o].now),
                          "task", taskSpec.title)
       IN  /\ vault' = Append(vault, File(dir, base, content))
           /\ pendingEvents' = Notify(pendingEvents)
    /\ ops' = NextSample(o)
    /\ writes' = writes + 1
    /\ UNCHANGED <<view, faults, settings, folders, cache, rebuilds, clock, genCount, calls,
                   console, phase, published, last>>

-----------------------------------------------------------------------------
\* Vault operations that fail (the disk is full, the folder is read-only)

\* a call step fails: the vault is left as it is
Fails(o) ==
    /\ faults > 0
    /\ faults' = faults - 1
    /\ UNCHANGED <<view, settings, folders, vault, cache, rebuilds, pendingEvents, clock,
                   genCount, calls, console, phase, writes, published>>

\* createEntity: createFolder throws and the folder is still missing; the
\* catch rethrows "Could not create folder"
CreateEnsureFails(o) ==
    /\ ops[o].pc = "ensure"
    /\ ~FolderExists(folders, ops[o].dir)
    /\ Fails(o)
    /\ Finish(o, Outcome([ops[o] EXCEPT !.failed = TRUE], "failed", "", TRUE, <<>>))

\* createEntity: vault.create throws; the catch rethrows "Could not create"
CreateFileFails(o) ==
    /\ ops[o].pc = "create"
    /\ Fails(o)
    /\ Finish(o, Outcome([ops[o] EXCEPT !.failed = TRUE], "failed", "", TRUE, <<>>))

\* updateEntity: vault.modify throws; nothing catches it
UpdateModifyFails(o) ==
    /\ ops[o].pc = "modify"
    /\ Fails(o)
    /\ Finish(o, Outcome([ops[o] EXCEPT !.failed = TRUE], "failed", "", TRUE, <<>>))

\* deleteEntity: vault.trash throws; the catch returns false
DeleteTrashFails(o) ==
    /\ ops[o].pc = "trash"
    /\ Fails(o)
    /\ Finish(o, Outcome([ops[o] EXCEPT !.failed = TRUE], "failed", "false", FALSE, <<>>))

\* createSampleTasksForProject: the folder cannot be created; the catch logs
\* and continues with the next sample task
SampleEnsureFails(o) ==
    /\ ops[o].pc = "sampleEnsure"
    /\ ~FolderExists(folders, SampleFolder(settings, ops[o].dir, ops[o].title))
    /\ Fails(o)
    /\ ops' = [NextSample(o) EXCEPT ![o].failed = TRUE]
    /\ UNCHANGED last

\* createSampleTasksForProject: vault.create throws; the catch logs and the
\* loop goes on
SampleCreateFails(o) ==
    /\ ops[o].pc = "sampleCreate"
    /\ Fails(o)
    /\ ops' = [NextSample(o) EXCEPT ![o].failed = TRUE]
    /\ UNCHANGED last

-----------------------------------------------------------------------------
\* DataService.getTimelineItems

TimelineItem(e, children) ==
    [id |-> e.id, title |-> e.title, type |-> e.type, startDate |-> e.startDate[1],
     endDate |-> e.endDate[1], progress |-> e.progress, status |-> e.status,
     children |-> children]

\* the tasks of a project that have both dates
getProjectTasksAsTimelineItems(c, projectId) ==
    LET tasks == SelectSeq(getEntitiesByType(c, "task"), LAMBDA t : t.parent = projectId)
        validTasks == SelectSeq(tasks, LAMBDA t : t.startDate # <<>> /\ t.endDate # <<>>)
    IN  [i \in 1..Len(validTasks) |-> TimelineItem(validTasks[i], <<>>)]

\* Array.prototype.sort with (a, b) => a.startDate - b.startDate: stable
RECURSIVE InsertByStart(_, _)
InsertByStart(sorted, item) ==
    IF sorted = <<>> THEN <<item>>
    ELSE IF Last(sorted).startDate <= item.startDate THEN Append(sorted, item)
    ELSE Append(InsertByStart(SubSeq(sorted, 1, Len(sorted) - 1), item), Last(sorted))

RECURSIVE SortByStart(_)
SortByStart(items) ==
    IF items = <<>> THEN <<>>
    ELSE InsertByStart(SortByStart(SubSeq(items, 1, Len(items) - 1)), Last(items))

getTimelineItems(c) ==
    LET projects == SelectSeq(getEntitiesByType(c, "project"),
                              LAMBDA p : p.startDate # <<>> /\ p.endDate # <<>>)
        tasks == SelectSeq(getEntitiesByType(c, "task"),
                           LAMBDA t : t.parent = <<>> /\ t.startDate # <<>>
                                                      /\ t.endDate # <<>>)
    IN  SortByStart([i \in 1..Len(projects) |->
                        TimelineItem(projects[i],
                                     getProjectTasksAsTimelineItems(c, projects[i].id))]
                    \o [i \in 1..Len(tasks) |-> TimelineItem(tasks[i], <<>>)])

-----------------------------------------------------------------------------
\* DependencyGraphView: the graph and its analysis

NODE_HEIGHT == 60
LEVEL_GAP == 200
NODE_GAP == 80

\* the tasks among the items and the children of every item
RECURSIVE getTasksOnly(_)
getTasksOnly(items) ==
    IF items = <<>> THEN <<>>
    ELSE (IF Head(items).type = "task" THEN <<Head(items)>> ELSE <<>>)
         \o Head(items).children \o getTasksOnly(Tail(items))

GraphNode(task, dependencies) ==
    [id |-> task.id, title |-> task.title, x |-> 0, y |-> 0,
     dependencies |-> dependencies, dependents |-> <<>>, isCritical |-> FALSE,
     isBottleneck |-> FALSE, level |-> 0, status |-> task.status,
     progress |-> task.progress]

GraphEdge(from, to) == [from |-> from, to |-> to, isCritical |-> FALSE]

\* this.nodes: a Map in insertion order
NodeHas(nodes, id) == \E i \in 1..Len(nodes) : nodes[i].id = id
NodeIndex(nodes, id) == CHOOSE i \in 1..Len(nodes) : nodes[i].id = id
NodeIds(nodes) == {nodes[i].id : i \in 1..Len(nodes)}

\* this.nodes.has(depId): a key is found only if it is a string
HasDep(nodes, depId) == depId.t = "str" /\ NodeHas(nodes, depId.s)

\* taskEntity?.dependencies || []
NodeDependencies(c, id) ==
    LET d == IF CacheHas(c, id) THEN getEntity(c, id).dependencies ELSE NullV
    IN  IF Truthy(d) THEN d ELSE ListV(<<>>)

\* node.dependencies.forEach exists only on an array
ForEachThrows(c, tasks) ==
    \E i \in 1..Len(tasks) : NodeDependencies(c, tasks[i].id).t # "list"

\* allTasks.forEach(task => this.nodes.set(task.id, ...))
RECURSIVE BuildNodes(_, _, _)
BuildNodes(c, tasks, nodes) ==
    IF tasks = <<>> THEN nodes
    ELSE LET n == GraphNode(Head(tasks), NodeDependencies(c, Head(tasks).id).items)
         IN  BuildNodes(c, Tail(tasks),
                        IF NodeHas(nodes, n.id)
                        THEN [nodes EXCEPT ![NodeIndex(nodes, n.id)] = n]
                        ELSE Append(nodes, n))

\* a mutation of LinkEntries: an entry that names no node gives an edge too
RECURSIVE LinkEntriesAll(_, _, _)
LinkEntriesAll(g, nodeId, deps) ==
    IF deps = <<>> THEN g
    ELSE LET depId == Head(deps) IN
         LinkEntriesAll(IF HasDep(g.nodes, depId)
                        THEN [nodes |-> [g.nodes EXCEPT
                                            ![NodeIndex(g.nodes, depId.s)].dependents =
                                                Append(@, nodeId)],
                              edges |-> Append(g.edges, GraphEdge(depId.s, nodeId))]
                        ELSE [g EXCEPT !.edges = Append(@, GraphEdge(depId.s, nodeId))],
                        nodeId, Tail(deps))

\* the reverse links and the edges, node by node and entry by entry
RECURSIVE LinkEntries(_, _, _)
LinkEntries(g, nodeId, deps) ==
    IF deps = <<>> THEN g
    ELSE LET depId == Head(deps) IN
         LinkEntries(IF HasDep(g.nodes, depId)
                     THEN [nodes |-> [g.nodes EXCEPT
                                         ![NodeIndex(g.nodes, depId.s)].dependents =
                                             Append(@, nodeId)],
                           edges |-> Append(g.edges, GraphEdge(depId.s, nodeId))]
                     ELSE g,
                     nodeId, Tail(deps))

RECURSIVE LinkNodes(_, _)
LinkNodes(g, i) ==
    IF i > Len(g.nodes) THEN g
    ELSE LinkNodes(LinkEntries(g, g.nodes[i].id, g.nodes[i].dependencies), i + 1)

buildGraph(c) ==
    LinkNodes([nodes |-> BuildNodes(c, getTasksOnly(getTimelineItems(c)), <<>>),
               edges |-> <<>>], 1)

\* calculateLayout

\* a mutation of MaxOf: the smaller of the two
MinOf(a, b) == IF a <= b THEN a ELSE b

MaxOf(a, b) == IF a >= b THEN a ELSE b

\* node.dependencies.filter(d => this.nodes.has(d)).length, per node
InDegree(nodes) ==
    [id \in NodeIds(nodes) |->
        LET deps == nodes[NodeIndex(nodes, id)].dependencies
        IN  Cardinality({k \in 1..Len(deps) : HasDep(nodes, deps[k])})]

\* currentNode.dependents.forEach: a mutation of Relax that keeps the level a
\* node got first
RECURSIVE RelaxFirstLevel(_, _, _)
RelaxFirstLevel(st, currentLevel, dependents) ==
    IF dependents = <<>> THEN st
    ELSE LET depId == Head(dependents)
             newDegree == st.inDegree[depId] - 1
         IN  RelaxFirstLevel(
                 [nodes |-> [st.nodes EXCEPT ![NodeIndex(st.nodes, depId)].level =
                                IF @ > 0 THEN @ ELSE currentLevel + 1],
                  inDegree |-> [st.inDegree EXCEPT ![depId] = newDegree],
                  queue |-> IF newDegree = 0 THEN Append(st.queue, depId) ELSE st.queue],
                 currentLevel, Tail(dependents))

\* currentNode.dependents.forEach: the level is raised, the degree lowered and
\* the node queued when its degree reaches 0
RECURSIVE Relax(_, _, _)
Relax(st, currentLevel, dependents) ==
    IF dependents = <<>> THEN st
    ELSE LET depId == Head(dependents)
             newDegree == st.inDegree[depId] - 1
         IN  Relax([nodes |-> [st.nodes EXCEPT ![NodeIndex(st.nodes, depId)].level =
                                  MaxOf(@, currentLevel + 1)],
                    inDegree |-> [st.inDegree EXCEPT ![depId] = newDegree],
                    queue |-> IF newDegree = 0 THEN Append(st.queue, depId)
                              ELSE st.queue],
                   currentLevel, Tail(dependents))

\* while (queue.length > 0)
RECURSIVE AssignLevels(_)
AssignLevels(st) ==
    IF st.queue = <<>> THEN st.nodes
    ELSE LET currentNode == st.nodes[NodeIndex(st.nodes, Head(st.queue))]
         IN  AssignLevels(Relax([st EXCEPT !.queue = Tail(@)], currentNode.level,
                                currentNode.dependents))

\* the nodes grouped by level, in Map order, get their positions
Positioned(nodes) ==
    [i \in 1..Len(nodes) |->
        LET atLevel == {j \in 1..Len(nodes) : nodes[j].level = nodes[i].level}
            index == Cardinality({j \in atLevel : j < i})
            totalHeight == Cardinality(atLevel) * (NODE_HEIGHT + NODE_GAP) - NODE_GAP
        IN  [nodes[i] EXCEPT !.x = nodes[i].level * LEVEL_GAP + 100,
                             !.y = (0 - totalHeight) \div 2
                                   + index * (NODE_HEIGHT + NODE_GAP) + 200]]

calculateLayout(nodes) ==
    LET inDegree == InDegree(nodes)
        roots == SelectSeq(nodes, LAMBDA n : inDegree[n.id] = 0)
    IN  Positioned(AssignLevels([nodes |-> nodes, inDegree |-> inDegree,
                                 queue |-> [i \in 1..Len(roots) |-> roots[i].id]]))

\* findCriticalPath and traceLongestPath

RECURSIVE traceLongestPath(_, _, _)
RECURSIVE TraceEach(_, _, _, _)

\* a mutation of TraceEach: the path through the first dependency that is a
\* node is taken, whatever its length
RECURSIVE TraceFirst(_, _, _, _)
TraceFirst(nodes, deps, newPath, longestSubPath) ==
    IF deps = <<>> THEN longestSubPath
    ELSE IF HasDep(nodes, Head(deps))
    THEN traceLongestPath(nodes, Head(deps).s, newPath)
    ELSE TraceFirst(nodes, Tail(deps), newPath, longestSubPath)

\* node.dependencies.forEach: a longer sub-path replaces the longest so far
TraceEach(nodes, deps, newPath, longestSubPath) ==
    IF deps = <<>> THEN longestSubPath
    ELSE LET subPath == IF HasDep(nodes, Head(deps))
                        THEN traceLongestPath(nodes, Head(deps).s, newPath)
                        ELSE <<>>
         IN  TraceEach(nodes, Tail(deps), newPath,
                       IF Len(subPath) > Len(longestSubPath) THEN subPath
                       ELSE longestSubPath)

traceLongestPath(nodes, nodeId, currentPath) ==
    IF ~NodeHas(nodes, nodeId) THEN currentPath
    ELSE LET node == nodes[NodeIndex(nodes, nodeId)]
             newPath == Append(currentPath, nodeId)
         IN  IF node.dependencies = <<>> THEN newPath
             ELSE TraceEach(nodes, node.dependencies, newPath, newPath)

\* traceLongestPath calls itself for a node whose call is still on the stack:
\* the same calls follow again, and the recursion ends only when the stack
\* is exhausted
RECURSIVE RecursesForever(_, _, _)
RecursesForever(nodes, nodeId, stack) ==
    \/ nodeId \in stack
    \/ LET deps == nodes[NodeIndex(nodes, nodeId)].dependencies
       IN  \E k \in 1..Len(deps) :
               /\ HasDep(nodes, deps[k])
               /\ RecursesForever(nodes, deps[k].s, stack \cup {nodeId})

\* findCriticalPath raises RangeError (maximum call stack size exceeded)
StackOverflows(nodes) ==
    \E i \in 1..Len(nodes) :
        nodes[i].dependents = <<>> /\ RecursesForever(nodes, nodes[i].id, {})

\* endNodes.forEach: a longer path replaces the longest so far
RECURSIVE LongestFrom(_, _, _)
LongestFrom(nodes, endNodes, longestPath) ==
    IF endNodes = <<>> THEN longestPath
    ELSE LET path == traceLongestPath(nodes, Head(endNodes).id, <<>>)
         IN  LongestFrom(nodes, Tail(endNodes),
                         IF Len(path) > Len(longestPath) THEN path ELSE longestPath)

\* the graph with its critical nodes and edges marked, and the path
findCriticalPath(g) ==
    LET endNodes == SelectSeq(g.nodes, LAMBDA n : n.dependents = <<>>)
        longestPath == LongestFrom(g.nodes, endNodes, <<>>)
        criticalPath == {longestPath[i] : i \in 1..Len(longestPath)}
    IN  [nodes |-> [i \in 1..Len(g.nodes) |->
                       [g.nodes[i] EXCEPT !.isCritical = g.nodes[i].id \in criticalPath]],
         edges |-> [i \in 1..Len(g.edges) |->
                       [g.edges[i] EXCEPT !.isCritical =
                           g.edges[i].from \in criticalPath
                           /\ g.edges[i].to \in criticalPath]],
         criticalPath |-> longestPath]

\* identifyBottlenecks
BottleneckThreshold == 3

identifyBottlenecks(nodes) ==
    [i \in 1..Len(nodes) |->
        [nodes[i] EXCEPT !.isBottleneck = Len(nodes[i].dependents) >= BottleneckThreshold]]

-----------------------------------------------------------------------------
\* DataService.getWBSTree

\* children.reduce((sum, child) => sum + child.progress, 0)
RECURSIVE SumProgress(_)
SumProgress(children) ==
    IF children = <<>> THEN 0 ELSE Head(children).progress + SumProgress(Tail(children))

\* Math.round(sum / n) for sum >= 0 and n > 0: halves go up
MathRound(sum, n) == (2 * sum + n) \div (2 * n)

\* the type of the children of an entity
ChildType(type) ==
    CASE type = "goal" -> "portfolio"
      [] type = "portfolio" -> "project"
      [] type = "project" -> "task"
      [] OTHER -> "none"

\* a mutation of WBSProgress: the stored value wins over the children
WBSProgressStored(entity, children) ==
    IF entity.type \in {"project", "task"} THEN entity.progress
    ELSE IF children # <<>> THEN MathRound(SumProgress(children), Len(children))
    ELSE 0

\* the progress of a node: the stored one ('progress' in entity) or 0,
\* replaced by the rounded mean of the children when there are children
WBSProgress(entity, children) ==
    IF children # <<>> THEN MathRound(SumProgress(children), Len(children))
    ELSE IF entity.type \in {"project", "task"} THEN entity.progress
    ELSE 0

RECURSIVE buildWBSNode(_, _)
buildWBSNode(c, entity) ==
    LET below == SelectSeq(getEntitiesByType(c, ChildType(entity.type)),
                           LAMBDA e : e.parent = entity.id)
        children == [i \in 1..Len(below) |-> buildWBSNode(c, below[i])]
    IN  [id |-> entity.id, title |-> entity.title, type |-> entity.type,
         status |-> entity.status, progress |-> WBSProgress(entity, children),
         children |-> children, expanded |-> FALSE]

getWBSTree(c) ==
    LET goals == getEntitiesByType(c, "goal")
    IN  [i \in 1..Len(goals) |-> buildWBSNode(c, goals[i])]

-----------------------------------------------------------------------------
\* The views read the index

Reading(kind) == [NoView EXCEPT !.kind = kind, !.seen = cache]

Reads ==
    /\ phase # "constructed"
    /\ UNCHANGED <<faults, settings, folders, vault, cache, rebuilds, ops, pendingEvents,
                   clock, genCount, calls, console, phase, writes, published, last>>

\* DependencyGraphView.render up to renderHeader: synchronous
render ==
    /\ Reads
    /\ view' = IF ForEachThrows(cache, getTasksOnly(getTimelineItems(cache)))
               THEN [Reading("graph") EXCEPT !.items = getTimelineItems(cache),
                                             !.threw = TRUE,
                                             !.error = "TypeError"]
               ELSE LET built == buildGraph(cache)
                        laid == [built EXCEPT !.nodes = calculateLayout(@)]
                        traced == findCriticalPath(laid)
                    IN  IF StackOverflows(laid.nodes)
                        THEN [Reading("graph") EXCEPT
                                 !.items = getTimelineItems(cache),
                                 !.nodes = laid.nodes,
                                 !.edges = laid.edges,
                                 !.threw = TRUE,
                                 !.error = "RangeError"]
                        ELSE
                        [Reading("graph") EXCEPT
                            !.items = getTimelineItems(cache),
                            !.nodes = identifyBottlenecks(traced.nodes),
                            !.edges = traced.edges,
                            !.criticalPath = traced.criticalPath]

\* WBSView.render: getWBSTree()
renderWBS ==
    /\ Reads
    /\ view' = [Reading("wbs") EXCEPT !.tree = getWBSTree(cache)]

\* TimelineView.render: getTimelineItems()
renderTimeline ==
    /\ Reads
    /\ view' = [Reading("timeline") EXCEPT !.items = getTimelineItems(cache)]

\* a caller looks an id up: getEntity(id)
Lookup(id) ==
    /\ Reads
    /\ view' = [Reading("lookup") EXCEPT
                   !.asked = id,
                   !.found = IF CacheHas(cache, id) THEN <<getEntity(cache, id)>>
                             ELSE <<>>]

-----------------------------------------------------------------------------
\* The notes the vault holds when the plugin is loaded

T1 == <<"t", "1">>
T2 == <<"t", "2">>
T3 == <<"t", "3">>
T4 == <<"t", "4">>
PR == <<"p", "r">>
PF == <<"p", "f">>

TaskIds == {T1, T2, T3, T4}

TasksDir(st) == IF st.useNestedFolders THEN RootFolder \o TasksFolder ELSE TasksFolder
ProjectsDir(st) == IF st.useNestedFolders THEN RootFolder \o ProjectsFolder ELSE ProjectsFolder

InitFolders(st) ==
    IF st.useNestedFolders
    THEN <<RootFolder, TasksDir(st), ProjectsDir(st)>>
    ELSE <<TasksDir(st), ProjectsDir(st)>>

\* a task whose dependencies are an empty flow sequence
NoteT1(st) ==
    File(TasksDir(st), <<"n", "1">>,
         Doc(TRUE, <<KeyLine("type", <<"task">>), KeyLine("id", T1),
                     KeyLine("dependencies", <<"[", "]">>)>>, <<"b", "1">>))

\* a task whose dependencies are a block sequence naming t1
NoteT2(st) ==
    File(TasksDir(st), <<"n", "2">>,
         Doc(TRUE, <<KeyLine("type", <<"task">>), KeyLine("id", T2),
                     KeyLine("dependencies", <<>>), ItemLine(T1),
                     KeyLine("status", <<"in-progress">>)>>, <<"b", "2">>))

\* another task whose dependencies are an empty flow sequence
NoteT3(st) ==
    File(TasksDir(st), <<"n", "3">>,
         Doc(TRUE, <<KeyLine("type", <<"task">>), KeyLine("id", T3),
                     KeyLine("dependencies", <<"[", "]">>)>>, <<"b", "3">>))

\* a task without a dependencies attribute
NoteT4(st) ==
    File(TasksDir(st), <<"n", "4">>,
         Doc(TRUE, <<KeyLine("type", <<"task">>), KeyLine("id", T4),
                     KeyLine("status", <<"not-started">>),
                     KeyLine("updatedAt", <<"0", "Z">>)>>, <<"b", "4">>))

\* a copy of the note of t4, made in the file explorer: same attributes
NoteT4Copy(st) ==
    File(TasksDir(st), <<"n", "4", " ", "c">>, NoteT4(st).doc)

\* a project whose parent names a portfolio that has no note; no id attribute
NotePR(st) ==
    File(ProjectsDir(st), PR,
         Doc(TRUE, <<KeyLine("type", <<"project">>),
                     KeyLine("parent", <<"\"", "[", "[">> \o PF \o <<"]", "]", "\"">>)>>,
             <<"b", "p">>))

InitWith(files, mayFail) ==
    /\ settings \in {[useNestedFolders |-> b] : b \in BOOLEAN}
    /\ folders = InitFolders(settings)
    /\ vault = files[settings.useNestedFolders]
    /\ cache = <<>>
    /\ rebuilds = <<>>
    /\ ops = [o \in OpIds |-> IdleOp]
    /\ pendingEvents = 1
    /\ clock = 0
    /\ genCount = 0
    /\ calls = 0
    /\ console = 0
    /\ phase = "constructed"
    /\ writes = 0
    /\ published = <<>>
    /\ last = NoLast
    /\ view = NoView
    /\ faults = mayFail

\* four tasks, t2 depending on t1
DepNotes(st) == <<NoteT1(st), NoteT2(st), NoteT3(st), NoteT4(st)>>

\* a task, its copy and a project
CrudNotes(st) == <<NoteT2(st), NoteT4(st), NoteT4Copy(st), NotePR(st)>>

\* a task and a project
OpsNotes(st) == <<NoteT2(st), NotePR(st)>>

Init == InitWith([b \in BOOLEAN |-> DepNotes([useNestedFolders |-> b])], 0)

InitCrud == InitWith([b \in BOOLEAN |-> CrudNotes([useNestedFolders |-> b])], 0)

InitRace == InitWith([b \in BOOLEAN |-> OpsNotes([useNestedFolders |-> b])], 0)

InitOps == InitWith([b \in BOOLEAN |-> OpsNotes([useNestedFolders |-> b])], MaxFaults)

-----------------------------------------------------------------------------
\* The vaults the views are opened on

GoalsDir(st) == IF st.useNestedFolders THEN RootFolder \o GoalsFolder ELSE GoalsFolder
PortfoliosDir(st) ==
    IF st.useNestedFolders THEN RootFolder \o PortfoliosFolder ELSE PortfoliosFolder

ViewFolders(st) ==
    (IF st.useNestedFolders THEN <<RootFolder>> ELSE <<>>)
    \o <<GoalsDir(st), PortfoliosDir(st), ProjectsDir(st), TasksDir(st)>>

G1 == <<"g", "1">>
PO == <<"p", "o">>
PA == <<"p", "a">>
W1 == <<"w", "1">>
W2 == <<"w", "2">>
W3 == <<"w", "3">>
W4 == <<"w", "4">>

TaskSeq == <<T1, T2, T3, T4>>

Quoted(s) == <<"\"">> \o s \o <<"\"">>
Link(id) == <<"[", "[">> \o id \o <<"]", "]">>

\* the dependency entry forms of the documentation: a flat entry, a quoted
\* reference, a record {task: reference, type, lag}
FlatEntry(id) == id
LinkEntry(id) == Quoted(Link(id))
RecordEntry(id) ==
    <<"{", "task", ":", " ">> \o Quoted(Link(id))
    \o <<",", " ", "type", ":", " ", "FS", ",", " ", "lag", ":", " ", "0", "}">>

Dates(n) ==
    <<KeyLine("startDate", <<ToString(n), "Z">>),
      KeyLine("dueDate", <<ToString(n + 1), "Z">>)>>

\* a task note: its dependencies as a block sequence of the given entries,
\* with or without dates
TaskNote(st, id, entries, dates) ==
    File(TasksDir(st), id,
         Doc(TRUE,
             <<KeyLine("type", <<"task">>), KeyLine("id", id)>>
             \o (IF entries = <<>> THEN <<KeyLine("dependencies", <<"[", "]">>)>>
                 ELSE <<KeyLine("dependencies", <<>>)>>
                      \o [i \in 1..Len(entries) |-> ItemLine(entries[i])])
             \o dates,
             <<>>))

\* every acyclic dependency relation over the four tasks
Ranks == {r \in [TaskIds -> 1..4] : \A a, b \in TaskIds : a # b => r[a] # r[b]}

AcyclicDeps ==
    {d \in [TaskIds -> SUBSET TaskIds] :
        \E r \in Ranks : \A a \in TaskIds : \A b \in d[a] : r[b] < r[a]}

GraphNotes(st, d) ==
    [i \in 1..4 |->
        TaskNote(st, TaskSeq[i], SelectSeq(TaskSeq, LAMBDA t : t \in d[TaskSeq[i]]),
                 Dates(i))]

\* t1 with dates and three tasks without dates that depend on it
UndatedNotes(st) ==
    <<TaskNote(st, T1, <<>>, Dates(1)), TaskNote(st, T2, <<T1>>, <<>>),
      TaskNote(st, T3, <<T1>>, <<>>), TaskNote(st, T4, <<T1>>, <<>>)>>

\* t2 names t1 twice
TwiceNotes(st) ==
    <<TaskNote(st, T1, <<>>, Dates(1)), TaskNote(st, T2, <<T1, T1>>, Dates(2)),
      TaskNote(st, T3, <<T1>>, Dates(3))>>

\* the same dependency on t1 in the three documented forms
FormsNotes(st) ==
    <<TaskNote(st, T1, <<>>, Dates(1)), TaskNote(st, T2, <<RecordEntry(T1)>>, Dates(2)),
      TaskNote(st, T3, <<LinkEntry(T1)>>, Dates(3)),
      TaskNote(st, T4, <<FlatEntry(T1)>>, Dates(4))>>

\* a goal, its portfolio, a project of the portfolio with three tasks of the
\* given progress, a project with a stored progress whose parent names the
\* portfolio pf that has no note, and a task whose parent names pf
WBSNotes(st, progress) ==
    <<File(GoalsDir(st), G1,
           Doc(TRUE, <<KeyLine("type", <<"goal">>), KeyLine("id", G1)>>, <<>>)),
      File(PortfoliosDir(st), PO,
           Doc(TRUE, <<KeyLine("type", <<"portfolio">>), KeyLine("id", PO),
                       KeyLine("parent", Quoted(Link(G1)))>>, <<>>)),
      File(ProjectsDir(st), PA,
           Doc(TRUE, <<KeyLine("type", <<"project">>), KeyLine("id", PA),
                       KeyLine("parent", Quoted(Link(PO))),
                       KeyLine("progress", <<"10">>),
                       KeyLine("startDate", <<"1", "Z">>),
                       KeyLine("endDate", <<"9", "Z">>)>>, <<>>)),
      File(ProjectsDir(st), PR,
           Doc(TRUE, <<KeyLine("type", <<"project">>), KeyLine("id", PR),
                       KeyLine("parent", Quoted(Link(PF))),
                       KeyLine("progress", <<ToString(progress[4])>>)>>, <<>>))>>
    \o [i \in 1..3 |->
           File(TasksDir(st), <<W1, W2, W3>>[i],
                Doc(TRUE, <<KeyLine("type", <<"task">>), KeyLine("id", <<W1, W2, W3>>[i]),
                            KeyLine("parent", Quoted(Link(PA))),
                            KeyLine("progress", <<ToString(progress[i])>>)>>
                          \o Dates(i), <<>>))]
    \o <<File(TasksDir(st), W4,
              Doc(TRUE, <<KeyLine("type", <<"task">>), KeyLine("id", W4),
                          KeyLine("parent", Quoted(Link(PF)))>> \o Dates(4), <<>>))>>

ProgressInputs == {<<20, 40, 60, 0>>, <<20, 41, 60, 35>>, <<0, 0, 100, 35>>,
                   <<25, 50, 50, 100>>}

\* notes that are no entities among notes that are: no attribute block, a
\* type the plugin does not know, no type, and a type other than the folder's
ParseNotes(st) ==
    <<TaskNote(st, T1, <<>>, Dates(1)),
      File(TasksDir(st), <<"n", "0">>, NoDoc),
      File(TasksDir(st), <<"m", "1">>,
           Doc(TRUE, <<KeyLine("type", <<"milestone">>), KeyLine("id", <<"m", "1">>)>>,
               <<>>)),
      File(TasksDir(st), <<"u", "1">>,
           Doc(TRUE, <<KeyLine("id", <<"u", "1">>)>> \o Dates(2), <<>>)),
      File(TasksDir(st), <<"g", "2">>,
           Doc(TRUE, <<KeyLine("type", <<"goal">>), KeyLine("id", <<"g", "2">>)>>, <<>>)),
      TaskNote(st, T2, <<T1>>, Dates(3))>>

ViewVaults(st) ==
    {GraphNotes(st, d) : d \in AcyclicDeps}
    \cup {WBSNotes(st, p) : p \in ProgressInputs}
    \cup {UndatedNotes(st), TwiceNotes(st), FormsNotes(st), ParseNotes(st)}

\* every dependency relation over t1..t3 that holds a cycle, a task that
\* names itself included
CycleIds == {T1, T2, T3}

CyclicDeps ==
    {d \in [CycleIds -> SUBSET CycleIds] :
        ~\E r \in [CycleIds -> 1..3] : \A a \in CycleIds : \A b \in d[a] : r[b] < r[a]}

CycleNotes(st, d) ==
    [i \in 1..3 |->
        TaskNote(st, TaskSeq[i], SelectSeq(TaskSeq, LAMBDA t : t \in d[TaskSeq[i]]),
                 Dates(i))]

\* the note of t1 and a copy of it, which carries the same id, and two notes
\* without an id that have the same base name in two folders
SameIdNotes(st) ==
    <<TaskNote(st, T1, <<>>, Dates(1)),
      File(TasksDir(st), <<"t", "1", " ", "c">>, TaskNote(st, T1, <<>>, Dates(1)).doc),
      File(TasksDir(st), <<"x">>,
           Doc(TRUE, <<KeyLine("type", <<"task">>)>> \o Dates(2), <<>>)),
      File(ProjectsDir(st), <<"x">>,
           Doc(TRUE, <<KeyLine("type", <<"project">>)>>, <<>>))>>

\* vaults whose data is irregular
DataVaults(st) == {CycleNotes(st, d) : d \in CyclicDeps} \cup {SameIdNotes(st)}

InitData ==
    /\ settings \in {[useNestedFolders |-> b] : b \in BOOLEAN}
    /\ folders = ViewFolders(settings)
    /\ vault \in DataVaults(settings)
    /\ cache = <<>>
    /\ rebuilds = <<>>
    /\ ops = [o \in OpIds |-> IdleOp]
    /\ pendingEvents = 0
    /\ clock = 0
    /\ genCount = 0
    /\ calls = 0
    /\ console = 0
    /\ phase = "constructed"
    /\ writes = 0
    /\ published = <<>>
    /\ last = NoLast
    /\ view = NoView
    /\ faults = 0

InitViews ==
    /\ settings \in {[useNestedFolders |-> b] : b \in BOOLEAN}
    /\ folders = ViewFolders(settings)
    /\ vault \in ViewVaults(settings)
    /\ cache = <<>>
    /\ rebuilds = <<>>
    /\ ops = [o \in OpIds |-> IdleOp]
    /\ pendingEvents = 0
    /\ clock = 0
    /\ genCount = 0
    /\ calls = 0
    /\ console = 0
    /\ phase = "constructed"
    /\ writes = 0
    /\ published = <<>>
    /\ last = NoLast
    /\ view = NoView
    /\ faults = 0

-----------------------------------------------------------------------------
\* Inputs

Titles == {<<"X">>, <<"a", "/", "b">>}

ParentIds == {<<>>, PR}

\* the connections a user draws: <<from, to>>
Drags == {<<T2, T1>>, <<T1, T3>>, <<T3, T1>>, <<T1, T4>>, <<T1, T2>>, <<T4, T4>>}

StatusUpdate == <<Update("status", StrV(<<"completed">>))>>
PriorityUpdate == <<Update("priority", StrV(<<"high">>))>>
DependenciesUpdate == <<Update("dependencies", ListV(<<StrV(T1), StrV(T2)>>))>>

UpdateInputs == {StatusUpdate, PriorityUpdate, DependenciesUpdate}

-----------------------------------------------------------------------------
\* Specifications

Scan ==
    \/ Initialize
    \/ ListenerRefresh
    \/ \E i \in 1..(MaxOps + MaxEventRebuilds + 1) : RebuildStep(i)
    \/ \E i \in 1..(MaxOps + MaxEventRebuilds + 1) : RebuildFinish(i)
    \/ \E o \in OpIds : OpRefresh(o)

\* connections are drawn one after the other, each when the previous one and
\* every rebuild have finished
NextDeps ==
    \/ Scan
    \/ \E o \in OpIds, d \in Drags : handleGlobalMouseUp(o, d[1], d[2], TRUE)
    \/ \E o \in OpIds : UpdateRead(o)
    \/ \E o \in OpIds : UpdateModify(o)

SpecDeps == Init /\ [][NextDeps]_vars

\* create, update and delete calls, one after the other
NextCrud ==
    \/ Scan
    \/ \E o \in OpIds, title \in Titles, parentId \in ParentIds :
           StartCreateEntity(o, "task", title, parentId, TRUE)
    \/ \E o \in OpIds : CreateEnsure(o)
    \/ \E o \in OpIds : CreateFile(o)
    \/ \E o \in OpIds, id \in {T2, T4} : StartDeleteEntity(o, id, TRUE)
    \/ \E o \in OpIds : DeleteTrash(o)
    \/ \E o \in OpIds, id \in {T2, T4}, updates \in UpdateInputs :
           StartUpdateEntity(o, id, updates, TRUE)
    \/ \E o \in OpIds : UpdateRead(o)
    \/ \E o \in OpIds : UpdateModify(o)

SpecCrud == InitCrud /\ [][NextCrud]_vars

\* The DataService driven directly: entities of every type are created,
\* updated and deleted, one call after the other, and a vault operation may
\* fail. The vault listeners of the plugin do not run here.
NextOps ==
    \/ Initialize
    \/ \E i \in 1..(MaxOps + 1) : RebuildStep(i)
    \/ \E i \in 1..(MaxOps + 1) : RebuildFinish(i)
    \/ \E o \in OpIds : OpRefresh(o)
    \/ \E o \in OpIds, type \in EntityTypes, parentId \in ParentIds :
           StartCreateEntity(o, type, <<"X">>, parentId, FALSE)
    \/ \E o \in OpIds : CreateEnsure(o)
    \/ \E o \in OpIds : CreateFile(o)
    \/ \E o \in OpIds : SampleEnsure(o)
    \/ \E o \in OpIds : SampleCreate(o)
    \/ \E o \in OpIds : StartDeleteEntity(o, T2, FALSE)
    \/ \E o \in OpIds : DeleteTrash(o)
    \/ \E o \in OpIds : StartUpdateEntity(o, T2, StatusUpdate, FALSE)
    \/ \E o \in OpIds : UpdateRead(o)
    \/ \E o \in OpIds : UpdateModify(o)
    \/ \E o \in OpIds : CreateEnsureFails(o)
    \/ \E o \in OpIds : CreateFileFails(o)
    \/ \E o \in OpIds : SampleEnsureFails(o)
    \/ \E o \in OpIds : SampleCreateFails(o)
    \/ \E o \in OpIds : UpdateModifyFails(o)
    \/ \E o \in OpIds : DeleteTrashFails(o)

SpecOps == InitOps /\ [][NextOps]_vars

\* The views are opened, and ids looked up, on a vault that does not change:
\* the index is built once, and a reader may read while it is being built.
NextViews ==
    \/ Initialize
    \/ \E i \in 1..(MaxOps + 1) : RebuildStep(i)
    \/ \E i \in 1..(MaxOps + 1) : RebuildFinish(i)
    \/ render
    \/ renderWBS
    \/ renderTimeline
    \/ \E id \in {T1, PF} : Lookup(id)

SpecViews == InitViews /\ [][NextViews]_vars

\* the same readers on the vaults whose data is irregular
SpecData == InitData /\ [][NextViews]_vars

\* the plugin is loaded and no call or rebuild is in flight
Idle == phase = "ready" /\ rebuilds = <<>> /\ \A o \in OpIds : ops[o].pc = "idle"

\* createEntity is called when the previous call and its rebuilds are over
CreateEntityWhenIdle(o, type, parentId) ==
    /\ Idle
    /\ StartCreateEntity(o, type, <<"X">>, parentId, FALSE)

\* entities of every type are created, one call after the other, and a vault
\* operation may fail
NextCreate ==
    \/ Initialize
    \/ \E i \in 1..(MaxOps + 1) : RebuildStep(i)
    \/ \E i \in 1..(MaxOps + 1) : RebuildFinish(i)
    \/ \E o \in OpIds : OpRefresh(o)
    \/ \E o \in OpIds, type \in EntityTypes, parentId \in ParentIds :
           CreateEntityWhenIdle(o, type, parentId)
    \/ \E o \in OpIds : CreateEnsure(o)
    \/ \E o \in OpIds : CreateFile(o)
    \/ \E o \in OpIds : SampleEnsure(o)
    \/ \E o \in OpIds : SampleCreate(o)
    \/ \E o \in OpIds : CreateEnsureFails(o)
    \/ \E o \in OpIds : CreateFileFails(o)
    \/ \E o \in OpIds : SampleEnsureFails(o)
    \/ \E o \in OpIds : SampleCreateFails(o)

SpecCreate == InitOps /\ [][NextCreate]_vars

\* a task is updated and deleted whenever the caller likes, also while
\* rebuilds run, and notes are trashed outside the plugin
NextRace ==
    \/ Scan
    \/ \E base \in {<<"n", "2">>, PR} : FileTrashed(base)
    \/ \E o \in OpIds : StartUpdateEntity(o, T2, StatusUpdate, FALSE)
    \/ \E o \in OpIds : UpdateRead(o)
    \/ \E o \in OpIds : UpdateModify(o)
    \/ \E o \in OpIds : StartDeleteEntity(o, T2, FALSE)
    \/ \E o \in OpIds : DeleteTrash(o)

SpecRace == InitRace /\ [][NextRace]_vars

\* connections are drawn whenever the user likes, also while rebuilds run
Next ==
    \/ Scan
    \/ \E o \in OpIds, d \in Drags : handleGlobalMouseUp(o, d[1], d[2], FALSE)
    \/ \E o \in OpIds : UpdateRead(o)
    \/ \E o \in OpIds : UpdateModify(o)

Spec == Init /\ [][Next]_vars

TypeOK ==
    /\ phase \in {"constructed", "loading", "ready"}
    /\ calls \in 0..MaxCalls
    /\ pendingEvents \in 0..MaxPendingEvents

-----------------------------------------------------------------------------
\* The dependency relation the index holds

\* the task ids a dependencies value names: the entries of a list, the
\* comma-separated names of a string
NamedIds(v) ==
    CASE v.t = "list" -> {v.items[i].s : i \in {j \in 1..Len(v.items) : v.items[j].t = "str"}}
      [] v.t = "str" -> LET parts == SplitTop(v.s, ",", 0, <<>>)
                        IN  {Trim(parts[i]) : i \in 1..Len(parts)}
      [] OTHER -> {}

\* <<a, b>>: the indexed entity a names b among its dependencies
Edges(c) == UNION {{<<c[i].id, d>> : d \in NamedIds(c[i].dependencies)} : i \in 1..Len(c)}

RECURSIVE Reach(_, _)
Reach(E, R) ==
    LET R2 == R \cup {<<pq[1][1], pq[2][2]>> : pq \in {x \in R \X E : x[1][2] = x[2][1]}}
    IN  IF R2 = R THEN R ELSE Reach(E, R2)

\* a depends on b, directly or transitively
DependsOn(c, a, b) == <<a, b>> \in Reach(Edges(c), Edges(c))

Acyclic(c) == \A i \in 1..Len(c) : ~DependsOn(c, c[i].id, c[i].id)

IndexedTasks(c) == {c[i].id : i \in {j \in 1..Len(c) : c[j].type = "task"}}

\* the plugin is loaded and no call, rebuild or notification is outstanding
Quiet == phase = "ready" /\ NoneInFlight

-----------------------------------------------------------------------------
\* Rebuilds and their readers

\* C1: while a rebuild is in progress, a reader sees the complete entity set
\* published before the rebuild started or the complete set the rebuild
\* produces, never an empty or partially filled index.
C1_ReadersSeeWholeSnapshot ==
    (phase = "ready" /\ rebuilds # <<>>) =>
        \/ cache = published
        \/ cache = Snapshot(settings, vault, folders)

\* rebuild i was started before a later rebuild, and the store changed between
\* their starts
Superseded(i) ==
    \E j \in (i + 1)..Len(rebuilds) : rebuilds[j].version # rebuilds[i].version

\* C2: a rebuild that a later rebuild superseded (the store changed between
\* their starts) never adds or restores an entity in the index once the later
\* rebuild has started.
C2_SupersededRebuildDiscarded ==
    [][\A i \in 1..Len(rebuilds) : (Superseded(i) /\ RebuildStep(i)) => cache' = cache]_vars

-----------------------------------------------------------------------------
\* Dependency edges

\* C3: after any sequence of createDependency calls, each run to completion
\* before the next starts, no indexed task depends on itself directly or
\* transitively.
C3_DependenciesStayAcyclic == Quiet => Acyclic(cache)

\* C4: a proposed edge between two indexed tasks is rejected exactly when
\* from = to or from already depends on to, directly or transitively, in the
\* current index.
C4_RejectedExactlyOnCycle ==
    Quiet =>
        \A from \in IndexedTasks(cache), to \in IndexedTasks(cache) :
            (from = to \/ wouldCreateCircularDependency(cache, from, to))
                <=> (from = to \/ DependsOn(cache, from, to))

\* C5: when createDependency(from, to) has accepted an edge and its update and
\* rebuild are complete, the dependencies of to in the index are a list that
\* holds from and every dependency to had before the call.
C5_AcceptedEdgeIsStored ==
    (Quiet /\ last.kind = "createDependency" /\ last.decided = "accepted") =>
        /\ CacheHas(cache, last.id)
        /\ getEntity(cache, last.id).dependencies.t = "list"
        /\ NamedIds(last.preDeps) \cup {last.from}
               \subseteq NamedIds(getEntity(cache, last.id).dependencies)

\* C6: the step in which createDependency rejects an edge as a cycle (it logs
\* its warning) writes no document and starts no rebuild: store, index and
\* the calls in flight are the same before and after.
C6_RejectionChangesNothing ==
    [][(console' # console) =>
           UNCHANGED <<vault, folders, cache, rebuilds, ops, pendingEvents, writes>>]_vars

\* a connection was rejected as a cycle
C6_Witness == console > 0 /\ last.kind = "createDependency" /\ last.decided = "rejected"

\* C7: an edge rejected as a cycle, a self-loop included, reaches the caller
\* as a failure: with a result or an exception that an accepted edge does not
\* give (an accepted edge resolves to undefined without throwing).
C7_RejectionReported ==
    last.decided \in {"rejected", "dropped"} =>
        (last.threw \/ last.ret # "undefined")

-----------------------------------------------------------------------------
\* Creating, deleting and updating entities

\* C8: createEntity('task', title, parentId) whose writes succeeded returned
\* an entity, and after its rebuild the index holds under that id an entity
\* with that id and the title that was passed in.
C8_CreateRoundTrip ==
    (Quiet /\ last.kind = "createEntity" /\ ~last.threw) =>
        /\ last.ret = "entity"
        /\ CacheHas(cache, last.id)
        /\ getEntity(cache, last.id).id = last.id
        /\ getEntity(cache, last.id).title = last.title

\* C9: after deleteEntity(id) has returned true and its rebuild is complete,
\* the index holds no entity under id.
C9_DeletedIsGone ==
    (Quiet /\ last.kind = "deleteEntity" /\ last.ret = "true") =>
        ~CacheHas(cache, last.id)

\* the attribute names a frontmatter block has
Keys(lines) == {lines[i].key : i \in {j \in 1..Len(lines) : ~lines[j].item}}

\* C10: after updateEntity(id, fields) on an indexed entity, every attribute
\* named in fields has the given value in the document, updatedAt is the time
\* of the call, and every other attribute and the body are as before.
C10_UpdateWritesNamedAttributes ==
    (Quiet /\ last.kind = "updateEntity" /\ last.decided = "updated"
           /\ FileExists(vault, last.dir, last.base)) =>
        LET doc == vault[FileIndex(vault, last.dir, last.base)].doc
            named == {last.updates[i].key : i \in 1..Len(last.updates)}
        IN  /\ \A k \in named : FmValue(doc.lines, k) = UpdateVal(last.updates, k)
            /\ FmValue(doc.lines, "updatedAt") = StrV(IsoNow(last.now))
            /\ \A k \in (Keys(doc.lines) \cup Keys(last.preDoc.lines))
                            \ (named \cup {"updatedAt"}) :
                   FmValue(doc.lines, k) = FmValue(last.preDoc.lines, k)
            /\ doc.body = last.preDoc.body

\* C11: for each entity type, the entity createEntity(type, title, parentId)
\* yields after its rebuild has that type, status not-started and, when
\* parentId is given, a parent that resolves to exactly parentId.
C11_CreatedAttributes ==
    (Idle /\ last.kind = "createEntity" /\ last.ret = "entity") =>
        LET e == last.entity[1] IN
        /\ e.type = last.type
        /\ e.status = <<"not-started">>
        /\ (last.parentId # <<>> => e.parent = last.parentId)

\* C20: when a folder creation, document creation, document write or
\* document removal failed inside createEntity, updateEntity or deleteEntity
\* (the sample tasks of a project included), the caller is told: the call
\* throws or, for deleteEntity, returns false.
C20_FailureReported ==
    last.failed => (last.threw \/ (last.kind = "deleteEntity" /\ last.ret = "false"))

-----------------------------------------------------------------------------
\* The graph a DependencyGraphView has drawn

Graphed == view.kind = "graph" /\ ~view.threw

NodeOf(id) == view.nodes[NodeIndex(view.nodes, id)]

\* the nodes a node depends on
InSetDeps(n) ==
    {n.dependencies[k].s : k \in {j \in 1..Len(n.dependencies) :
                                     HasDep(view.nodes, n.dependencies[j])}}

\* the nodes that depend on a node
DependentNodes(id) == {m \in NodeIds(view.nodes) : id \in InSetDeps(NodeOf(m))}

SetMax(S) == CHOOSE x \in S : \A y \in S : y <= x

\* t2 and t3 depend on t1, t4 on t2 and t3
Diamond == (T1 :> {}) @@ (T2 :> {T1}) @@ (T3 :> {T1}) @@ (T4 :> {T2, T3})

DiamondDrawn ==
    /\ Graphed
    /\ NodeIds(view.nodes) = TaskIds
    /\ \A id \in TaskIds : InSetDeps(NodeOf(id)) = Diamond[id]

\* C12: in every graph drawn from an acyclic set of tasks, a node without a
\* dependency among the nodes has level 0 and every other node has level
\* 1 + the maximum level of the nodes it depends on; the diamond t1..t4 gets
\* the levels 0, 1, 1, 2.
C12_LevelsAreLongestChains ==
    Graphed =>
        /\ \A i \in 1..Len(view.nodes) :
               LET n == view.nodes[i] IN
               n.level = IF InSetDeps(n) = {} THEN 0
                         ELSE 1 + SetMax({NodeOf(d).level : d \in InSetDeps(n)})
        /\ DiamondDrawn =>
               /\ NodeOf(T1).level = 0 /\ NodeOf(T2).level = 1
               /\ NodeOf(T3).level = 1 /\ NodeOf(T4).level = 2

C12_Witness == DiamondDrawn /\ NodeOf(T4).level = 2

\* the nodes flagged critical
CriticalIds == {view.nodes[i].id : i \in {j \in 1..Len(view.nodes) : view.nodes[j].isCritical}}

\* the number of nodes of the longest dependency chain that ends at a node
RECURSIVE ChainLen(_)
ChainLen(id) ==
    IF InSetDeps(NodeOf(id)) = {} THEN 1
    ELSE 1 + SetMax({ChainLen(d) : d \in InSetDeps(NodeOf(id))})

EndNodes == {id \in NodeIds(view.nodes) : DependentNodes(id) = {}}

\* the sequence p is a dependency chain: it starts at a node without
\* dependents and each node depends on the next
IsChain(p) ==
    /\ \A i, j \in 1..Len(p) : i # j => p[i] # p[j]
    /\ p # <<>> => p[1] \in EndNodes
    /\ \A i \in 1..(Len(p) - 1) : p[i + 1] \in InSetDeps(NodeOf(p[i]))

TasksDependingOn(c, id) == {e[1] : e \in {x \in Edges(c) : x[2] = id}}

\* C14: after the analysis a node is flagged bottleneck exactly when at least
\* 3 tasks depend on it; t1 of the diamond, with 2 dependents, is not flagged.
C14_BottleneckIffThreeDependents ==
    Graphed =>
        /\ \A i \in 1..Len(view.nodes) :
               view.nodes[i].isBottleneck <=>
                   Cardinality(TasksDependingOn(view.seen, view.nodes[i].id)) >= 3
        /\ DiamondDrawn => ~NodeOf(T1).isBottleneck

\* C15: the graph has exactly one node for every task of the index it was
\* built from, whatever the task's dates and project, and no other node.
C15_OneNodePerIndexedTask ==
    Graphed =>
        /\ NodeIds(view.nodes) = IndexedTasks(view.seen)
        /\ Len(view.nodes) = Cardinality(IndexedTasks(view.seen))

\* the task a dependency entry stands for: a flat entry or a reference names
\* it, a record names it in its task field
EntryTask(entry) ==
    CASE entry.t = "str" -> extractLinkId(entry)
      [] entry.t = "rec" ->
            LET fs == SelectSeq(entry.items, LAMBDA f : f.s = "task")
            IN  IF fs = <<>> THEN <<>> ELSE extractLinkId(fs[1].items[1])
      [] OTHER -> <<>>

\* the tasks the dependency entries of a document stand for
DocumentedDeps(v) ==
    IF v.t = "list" THEN {EntryTask(v.items[i]) : i \in 1..Len(v.items)} \ {<<>>}
    ELSE {}

\* C16: a dependency on task X gives the same indexed dependency and the same
\* edge from X whether the document writes it as a flat entry X, as a
\* reference [[X]] or as a record {task: [[X]], type, lag}.
C16_DependencyFormsAgree ==
    Graphed =>
        \A i \in 1..Len(view.nodes) :
            LET n == view.nodes[i]
                e == getEntity(view.seen, n.id)
            IN  /\ NamedIds(e.dependencies) = DocumentedDeps(e.dependencies)
                /\ {view.edges[k].from : k \in {j \in 1..Len(view.edges) :
                                                   view.edges[j].to = n.id}}
                   = DocumentedDeps(e.dependencies) \cap NodeIds(view.nodes)

-----------------------------------------------------------------------------
\* The forest a WBS view has read

\* the nodes of a forest, at every depth
RECURSIVE WBSNodes(_)
WBSNodes(forest) ==
    UNION {{forest[i]} \cup WBSNodes(forest[i].children) : i \in 1..Len(forest)}

Distance(a, b) == IF a >= b THEN a - b ELSE b - a

\* p is an integer nearest to sum / n
NearestToMean(p, sum, n) == 2 * Distance(n * p, sum) <= n

ChildProgress(node) == [i \in 1..Len(node.children) |-> node.children[i].progress]

-----------------------------------------------------------------------------
\* References to notes that do not exist

\* the id a document carries
DocId(f) ==
    IF Truthy(FmValue(f.doc.lines, "id")) THEN FmValue(f.doc.lines, "id").s ELSE f.base

Carried(v) == {DocId(v[i]) : i \in {j \in 1..Len(v) : v[j].doc.hasFm}}

\* the project documents whose parent names an id no document carries
DanglingProjects(v) ==
    {i \in 1..Len(v) :
        /\ v[i].doc.hasFm
        /\ FmValue(v[i].doc.lines, "type") = StrV(<<"project">>)
        /\ extractLinkId(FmValue(v[i].doc.lines, "parent")) # <<>>
        /\ extractLinkId(FmValue(v[i].doc.lines, "parent")) \notin Carried(v)}

\* the index holds an entity whose parent is not in the index
HasDangling(c) == \E i \in 1..Len(c) : c[i].parent # <<>> /\ ~CacheHas(c, c[i].parent)

\* C18: a project whose parent names a portfolio no document carries is
\* indexed by the rebuild with that parent; looking the portfolio id up gives
\* nothing and does not raise; getTimelineItems and getWBSTree return on an
\* index with such references, the forest with one root per indexed goal.
C18_DanglingParentTolerated ==
    /\ Idle =>
           \A i \in DanglingProjects(vault) :
               /\ CacheHas(cache, DocId(vault[i]))
               /\ getEntity(cache, DocId(vault[i])).type = "project"
               /\ getEntity(cache, DocId(vault[i])).parent
                  = extractLinkId(FmValue(vault[i].doc.lines, "parent"))
    /\ (view.kind = "lookup" /\ view.asked \notin Carried(vault)) =>
           (view.found = <<>> /\ ~view.threw)
    /\ (view.kind \in {"timeline", "wbs"} /\ HasDangling(view.seen)) => ~view.threw
    /\ (view.kind = "wbs" /\ HasDangling(view.seen)) =>
           Len(view.tree) = Len(getEntitiesByType(view.seen, "goal"))

C18_Witness ==
    /\ Idle
    /\ DanglingProjects(vault) # {}
    /\ CacheHas(cache, PR) /\ getEntity(cache, PR).parent = PF
    /\ view.kind = "lookup" /\ view.asked = PF /\ view.found = <<>>
    /\ HasDangling(view.seen)

-----------------------------------------------------------------------------
\* Which documents become entities

\* the type a scan expects of the documents of a folder: the flat layout has
\* one folder per type, the nested layout expects nothing
FolderType(st, dir) ==
    IF st.useNestedFolders THEN ""
    ELSE CASE dir = GoalsFolder -> "goal"
           [] dir = PortfoliosFolder -> "portfolio"
           [] dir = ProjectsFolder -> "project"
           [] dir = TasksFolder -> "task"
           [] OTHER -> ""

\* the type attribute a document writes, "" if it writes none
ExplicitType(f) ==
    LET v == FmValue(f.doc.lines, "type")
    IN  IF v.t = "str" /\ Len(v.s) = 1 THEN v.s[1] ELSE ""

\* the type that decides: the explicit one first
DecidingType(st, f) ==
    IF ExplicitType(f) # "" THEN ExplicitType(f) ELSE FolderType(st, f.dir)

FromFile(c, f) == {i \in 1..Len(c) : c[i].dir = f.dir /\ c[i].base = f.base}

\* C19: once the rebuild is done, every document with an attribute block
\* whose explicit type, or else the type expected of its folder, is an
\* entity type is indexed with that type; a document without an attribute
\* block, without either type or with an unknown type gives no entity, and
\* the other documents are indexed all the same.
C19_TypeDecidesIndexing ==
    Idle =>
        \A k \in 1..Len(vault) :
            LET f == vault[k] IN
            IF f.doc.hasFm /\ DecidingType(settings, f) \in EntityTypes
            THEN \E i \in FromFile(cache, f) :
                     cache[i].type = DecidingType(settings, f) /\ cache[i].id = DocId(f)
            ELSE FromFile(cache, f) = {}

C19_Witness ==
    /\ Idle
    /\ ~settings.useNestedFolders
    /\ vault = ParseNotes(settings)
    /\ CacheHas(cache, <<"u", "1">>) /\ getEntity(cache, <<"u", "1">>).type = "task"
    /\ CacheHas(cache, <<"g", "2">>) /\ getEntity(cache, <<"g", "2">>).type = "goal"
    /\ CacheHas(cache, T1) /\ CacheHas(cache, T2)
    /\ Len(cache) = 4

-----------------------------------------------------------------------------
\* The index as a map

\* the documents parseFile makes an entity of
Recognizable(st, v) ==
    {k \in 1..Len(v) : v[k].doc.hasFm /\ DecidingType(st, v[k]) \in EntityTypes}

\* C21: in every state no two entities of the index have the same id, and a
\* lookup returns an entity with the id asked for or nothing.
C21_IdsAreUnique ==
    /\ \A i, j \in 1..Len(cache) : i # j => cache[i].id # cache[j].id
    /\ view.kind = "lookup" =>
           (view.found = <<>> \/ view.found[1].id = view.asked)

C21_Witness ==
    /\ Idle
    /\ vault = SameIdNotes(settings)
    /\ Len(cache) = 2
    /\ view.kind = "lookup" /\ view.asked = T1 /\ view.found # <<>>

\* C29: after the rebuild of an unchanging store the index holds as many
\* entities as the store holds recognizable documents, also when documents
\* share an id or, lacking one, a base name.
C29_EveryRecognizableDocumentIndexed ==
    Idle => Len(cache) = Cardinality(Recognizable(settings, vault))

-----------------------------------------------------------------------------
\* Graphs drawn from dependencies that hold a cycle

\* <<a, b>>: node a depends on node b
NodeEdges == UNION {{<<view.nodes[i].id, d>> : d \in InSetDeps(view.nodes[i])} :
                       i \in 1..Len(view.nodes)}

\* the nodes on a cycle and the nodes that depend on them: their in-degree
\* never reaches 0
StuckNodes ==
    LET R == Reach(NodeEdges, NodeEdges)
    IN  {id \in NodeIds(view.nodes) :
            \E c \in NodeIds(view.nodes) : <<c, c>> \in R /\ (id = c \/ <<id, c>> \in R)}

\* the node has been given its place in the column of its level
PlacedAtLevel(n) == n.x = n.level * LEVEL_GAP + 100

\* C22: when the dependencies hold a cycle, the nodes whose in-degree stays
\* nonzero (those on a cycle and those that depend on them) are set apart as
\* unresolved and get no level.
C22_CyclicNodesGetNoLevel ==
    view.kind = "graph" =>
        \A id \in StuckNodes : ~PlacedAtLevel(NodeOf(id))

\* C23: the analysis of every graph, also of one whose dependencies hold a
\* cycle reachable from a node without dependents, ends; the tracing of the
\* critical path does not recurse until the stack is exhausted.
C23_AnalysisTerminates ==
    view.kind = "graph" => view.error # "RangeError"

-----------------------------------------------------------------------------
\* Reverse links and levels

Listed(seq, x) == \E k \in 1..Len(seq) : seq[k] = x

\* C24: in the built graph v is among u.dependents exactly when u is among
\* v.dependencies and both are nodes; the edges are exactly these pairs; a
\* dependency on an id that is no node gives no edge and no dependents entry.
C24_DependentsInvertDependencies ==
    Graphed =>
        /\ \A u, v \in NodeIds(view.nodes) :
               /\ Listed(NodeOf(u).dependents, v) <=> Listed(NodeOf(v).dependencies, StrV(u))
               /\ (\E k \in 1..Len(view.edges) :
                       view.edges[k].from = u /\ view.edges[k].to = v)
                  <=> Listed(NodeOf(v).dependencies, StrV(u))
        /\ \A k \in 1..Len(view.edges) :
               view.edges[k].from \in NodeIds(view.nodes)
               /\ view.edges[k].to \in NodeIds(view.nodes)
        /\ \A i \in 1..Len(view.nodes) : \A k \in 1..Len(view.nodes[i].dependents) :
               view.nodes[i].dependents[k] \in NodeIds(view.nodes)

\* a node names a task that is no node, and a node has a dependent
C24_Witness ==
    /\ Graphed
    /\ \E i \in 1..Len(view.nodes) : \E k \in 1..Len(view.nodes[i].dependencies) :
           /\ view.nodes[i].dependencies[k].t = "str"
           /\ view.nodes[i].dependencies[k].s \notin NodeIds(view.nodes)
    /\ \E i \in 1..Len(view.nodes) : view.nodes[i].dependents # <<>>
    /\ view.edges # <<>>

SetMin(S) == CHOOSE x \in S : \A y \in S : x <= y

\* the least number of dependency hops from a node without dependencies
RECURSIVE MinHops(_)
MinHops(id) ==
    IF InSetDeps(NodeOf(id)) = {} THEN 0
    ELSE 1 + SetMin({MinHops(d) : d \in InSetDeps(NodeOf(id))})

\* C25 as stated: the level of a task is the minimum number of dependency
\* hops from any task without dependencies to it.
C25_LevelIsMinimumHops ==
    Graphed => \A id \in NodeIds(view.nodes) : NodeOf(id).level = MinHops(id)

\* C25 as the code has it: in a graph drawn from an acyclic set of tasks the
\* level of a task is the maximum number of dependency hops from any task
\* without dependencies to it.
C25_LevelIsMaximumHops ==
    Graphed => \A id \in NodeIds(view.nodes) : NodeOf(id).level = ChainLen(id) - 1

\* a node further from one root than from another
C25_Witness ==
    /\ Graphed
    /\ \E id \in NodeIds(view.nodes) :
           NodeOf(id).level = 2 /\ MinHops(id) = 1 /\ ChainLen(id) = 3

-----------------------------------------------------------------------------
\* Overlapping rebuilds

\* the entities a sequence of index entries holds
Held(c) == {c[i] : i \in 1..Len(c)}

\* C26: once the vault has stopped changing and every rebuild, call and
\* notification has finished, the index is the parse of the vault as it is:
\* the entity of every recognizable note is present, and nothing else.
C26_IndexConvergesToStore ==
    Quiet => Held(cache) = Held(Snapshot(settings, vault, folders))

\* C27: connections drawn at any moment, also while rebuilds and other
\* connections are in flight, leave the dependencies acyclic once everything
\* has finished.
C27_ConcurrentConnectionsStayAcyclic ==
    (Quiet /\ calls > 0) => Acyclic(Snapshot(settings, vault, folders))

\* the notes of the vault that carry the id
DocsOf(id) == {k \in 1..Len(vault) : vault[k].doc.hasFm /\ DocId(vault[k]) = id}

\* the note holds every attribute of the update as the update gives it
Reflects(f, updates) ==
    \A u \in 1..Len(updates) : FmValue(f.doc.lines, updates[u].key) = updates[u].val

\* C28: an updateEntity or deleteEntity call issued while a rebuild is in
\* flight is not lost: when the call and every rebuild have finished, a note
\* that carries the id of the last update holds the updated attributes, and
\* no note carries the id of the last delete.
C28_CallDuringRebuildNotLost ==
    Quiet =>
        /\ last.kind = "updateEntity" =>
               \A k \in DocsOf(last.id) : Reflects(vault[k], last.updates)
        /\ last.kind = "deleteEntity" => DocsOf(last.id) = {}

-----------------------------------------------------------------------------
\* What createEntity leaves alone

\* the index before the first call: the parse of the notes the vault began with
IndexBefore == Held(Snapshot(settings, OpsNotes(settings), InitFolders(settings)))

Extra == Held(cache) \ (IndexBefore \cup {last.entity[1]})

SampleTitles == {SampleTasks[i].title : i \in 1..Len(SampleTasks)}

====
